---- MODULE Spec2Model ----
(***************************************************************************)
(* Stencil: structural matching (package matcher) and rewriting (package   *)
(* executor) of a Go syntax tree, driven by the blocks of a .lift program. *)
(*                                                                         *)
(* Strings are sequences of one-character strings, so that Trim, SplitN    *)
(* and Contains are computed character by character.  The syntax tree is   *)
(* a heap: a sequence of nodes, a node's identity being its index.         *)
(***************************************************************************)
EXTENDS Integers, Sequences, FiniteSets, TLC

VARIABLES heap, prog, bi, pc, mk, matches, ai, mi, imports, applied,
          emitted, lastResult, err, trace, parser

vars == <<heap, prog, bi, pc, mk, matches, ai, mi, imports, applied,
          emitted, lastResult, err, trace, parser>>

(***************************************************************************)
(* Bounds of the model.                                                    *)
(***************************************************************************)
MaxFuncs == 2

(***************************************************************************)
(* Strings.                                                                *)
(***************************************************************************)
QUOTE == "\""
\* the raw-string delimiter (the backquote, written ' here)
BACKTICK == "'"

Q(s) == <<QUOTE>> \o s \o <<QUOTE>>

Raw(s) == <<BACKTICK>> \o s \o <<BACKTICK>>

RECURSIVE TrimLeft(_, _)
TrimLeft(s, c) ==
    IF s # <<>> /\ Head(s) = c THEN TrimLeft(Tail(s), c) ELSE s

RECURSIVE TrimRight(_, _)
TrimRight(s, c) ==
    IF s # <<>> /\ s[Len(s)] = c THEN TrimRight(SubSeq(s, 1, Len(s) - 1), c) ELSE s

\* strings.Trim(s, cutset) for a one-character cutset
Trim(s, c) == TrimRight(TrimLeft(s, c), c)

HasPrefix(s, p) == Len(p) <= Len(s) /\ SubSeq(s, 1, Len(p)) = p

\* strings.Index: the first position at which sub occurs in s, 0 when none
Index(s, sub) ==
    LET hits == {i \in 1..(Len(s) - Len(sub) + 1) : SubSeq(s, i, i + Len(sub) - 1) = sub}
    IN IF hits = {} THEN 0 ELSE CHOOSE i \in hits : \A j \in hits : i <= j

\* strings.Contains
Contains(s, sub) == Index(s, sub) # 0

\* s cut at the occurrence of sep at position i (none when i = 0)
CutAt(s, sep, i) ==
    IF i = 0 THEN <<s>>
    ELSE <<SubSeq(s, 1, i - 1), SubSeq(s, i + Len(sep), Len(s))>>

\* strings.SplitN(s, sep, 2)
SplitN2(s, sep) == CutAt(s, sep, Index(s, sep))

\* strings.Split(s, sep) for a non-empty separator
RECURSIVE Split(_, _)
SplitRest(cut, sep) ==
    IF Len(cut) = 1 THEN cut ELSE <<cut[1]>> \o Split(cut[2], sep)

Split(s, sep) == SplitRest(SplitN2(s, sep), sep)

sContextDot == <<"c","o","n","t","e","x","t",".">>
sTimeDot == <<"t","i","m","e",".">>
sContext == <<"c","o","n","t","e","x","t">>
sTime == <<"t","i","m","e">>
sHttp == <<"h","t","t","p">>
sNetHttp == <<"n","e","t","/","h","t","t","p">>
sGet == <<"G","e","t">>
sPost == <<"P","o","s","t">>
sWithTimeout == <<"W","T">>
sCtxType == <<"C","t","x">>
sString == <<"s","t","r">>
sError == <<"e","r","r","o","r">>

(***************************************************************************)
(* Values read from the tree (any): nil, a node, a slice of nodes, a nil   *)
(* slice, a string, a token.                                               *)
(***************************************************************************)
NilV == [t |-> "nil"]
Nd(i) == [t |-> "node", id |-> i]
Ls(ids) == [t |-> "list", ids |-> ids, isnil |-> FALSE]
NilSlice == [t |-> "list", ids |-> <<>>, isnil |-> TRUE]
St(s) == [t |-> "str", s |-> s]
Tok(s) == [t |-> "tok", s |-> s]
Pos(p) == [t |-> "pos", p |-> p]

N(kind, f) == [kind |-> kind, f |-> f]
Ident(name) == N("Ident", [Name |-> St(name)])

(***************************************************************************)
(* Source files.  A function declaration is a block of nodes with ids      *)
(* relative to its first node; Shift relocates it to its place in the      *)
(* heap.  Fields that go/parser leaves nil are absent from the record.     *)
(***************************************************************************)
ShiftValue(v, off) ==
    CASE v.t = "node" -> Nd(v.id + off)
      [] v.t = "list" -> [v EXCEPT !.ids = [i \in 1..Len(v.ids) |-> v.ids[i] + off]]
      [] OTHER -> v

Shift(nodes, off) ==
    [i \in 1..Len(nodes) |->
        N(nodes[i].kind, [k \in DOMAIN nodes[i].f |-> ShiftValue(nodes[i].f[k], off)])]

\* func F(u str) err { http.Get(g(u)) }
FnF == <<
    N("FuncDecl", [Name |-> Nd(2), Type |-> Nd(3), Body |-> Nd(11)]),
    Ident(<<"F">>),
    N("FuncType", [Params |-> Nd(4), Results |-> Nd(8)]),
    N("FieldList", [List |-> Ls(<<5>>)]),
    N("Field", [Names |-> Ls(<<6>>), Type |-> Nd(7)]),
    Ident(<<"u">>),
    Ident(sString),
    N("FieldList", [List |-> Ls(<<9>>)]),
    N("Field", [Names |-> NilSlice, Type |-> Nd(10)]),
    Ident(sError),
    N("BlockStmt", [List |-> Ls(<<12>>)]),
    N("ExprStmt", [X |-> Nd(13)]),
    N("CallExpr", [Fun |-> Nd(14), Args |-> Ls(<<17>>)]),
    N("SelectorExpr", [X |-> Nd(15), Sel |-> Nd(16)]),
    Ident(sHttp),
    Ident(sGet),
    N("CallExpr", [Fun |-> Nd(18), Args |-> Ls(<<19>>)]),
    Ident(<<"g">>),
    Ident(<<"u">>) >>

\* func G() {}
FnG == <<
    N("FuncDecl", [Name |-> Nd(2), Type |-> Nd(3), Body |-> Nd(5)]),
    Ident(<<"G">>),
    N("FuncType", [Params |-> Nd(4)]),
    N("FieldList", [List |-> NilSlice]),
    N("BlockStmt", [List |-> NilSlice]) >>

\* func K(c context.Ctx) { context.WT(); http.Post() }
FnK == <<
    N("FuncDecl", [Name |-> Nd(2), Type |-> Nd(3), Body |-> Nd(10)]),
    Ident(<<"K">>),
    N("FuncType", [Params |-> Nd(4)]),
    N("FieldList", [List |-> Ls(<<5>>)]),
    N("Field", [Names |-> Ls(<<6>>), Type |-> Nd(7)]),
    Ident(<<"c">>),
    N("SelectorExpr", [X |-> Nd(8), Sel |-> Nd(9)]),
    Ident(sContext),
    Ident(sCtxType),
    N("BlockStmt", [List |-> Ls(<<11, 16>>)]),
    N("ExprStmt", [X |-> Nd(12)]),
    N("CallExpr", [Fun |-> Nd(13), Args |-> NilSlice]),
    N("SelectorExpr", [X |-> Nd(14), Sel |-> Nd(15)]),
    Ident(sContext),
    Ident(sWithTimeout),
    N("ExprStmt", [X |-> Nd(17)]),
    N("CallExpr", [Fun |-> Nd(18), Args |-> NilSlice]),
    N("SelectorExpr", [X |-> Nd(19), Sel |-> Nd(20)]),
    Ident(sHttp),
    Ident(sPost) >>

FnShapes == <<FnF, FnG, FnK>>

\* import "<path>"
ImportDecl(path) == <<
    N("GenDecl", [Tok |-> Tok("import"), Lparen |-> Pos(0), Rparen |-> Pos(0),
                  Specs |-> Ls(<<2>>)]),
    N("ImportSpec", [Path |-> Nd(3)]),
    N("BasicLit", [Kind |-> Tok("STRING"), Value |-> St(Q(path))]) >>

\* the nodes of the declarations decls laid out one after another from
\* offset off, and the ids of their first nodes
RECURSIVE LayOut(_, _)
LayOut(decls, off) ==
    IF decls = <<>> THEN [nodes |-> <<>>, roots |-> <<>>]
    ELSE LET rest == LayOut(Tail(decls), off + Len(Head(decls)))
         IN [nodes |-> Shift(Head(decls), off) \o rest.nodes,
             roots |-> <<off + 1>> \o rest.roots]

\* package p; decls...   (node 1 is the *ast.File)
MkFile(decls) ==
    LET lay == LayOut(decls, 2)
    IN << N("File", [Name |-> Nd(2),
                     Decls |-> IF decls = <<>> THEN NilSlice ELSE Ls(lay.roots)]),
          Ident(<<"p">>) >> \o lay.nodes

FileRoot == 1

ImportChoices ==
    {<<>>, <<ImportDecl(sNetHttp)>>, <<ImportDecl(sContext)>>,
     <<ImportDecl(sNetHttp), ImportDecl(sContext)>>}

FuncSeqs == UNION {[1..n -> 1..Len(FnShapes)] : n \in 1..MaxFuncs}

SourceFiles ==
    {MkFile(imp \o [i \in 1..Len(fs) |-> FnShapes[fs[i]]]) :
        imp \in ImportChoices, fs \in FuncSeqs}

(***************************************************************************)
(* Tree access (package matcher).                                          *)
(***************************************************************************)
\* the fields ast.Walk descends into, in its order, per node kind
WalkFields(kind) ==
    CASE kind = "File" -> <<"Name", "Decls">>
      [] kind = "GenDecl" -> <<"Specs">>
      [] kind = "ImportSpec" -> <<"Name", "Path">>
      [] kind = "FuncDecl" -> <<"Recv", "Name", "Type", "Body">>
      [] kind = "FuncType" -> <<"Params", "Results">>
      [] kind = "FieldList" -> <<"List">>
      [] kind = "Field" -> <<"Names", "Type">>
      [] kind = "BlockStmt" -> <<"List">>
      [] kind = "ExprStmt" -> <<"X">>
      [] kind = "CallExpr" -> <<"Fun", "Args">>
      [] kind = "SelectorExpr" -> <<"X", "Sel">>
      [] OTHER -> <<>>

ValueIds(v) ==
    CASE v.t = "node" -> <<v.id>>
      [] v.t = "list" -> v.ids
      [] OTHER -> <<>>

RECURSIVE FieldIds(_, _)
FieldIds(node, names) ==
    IF names = <<>> THEN <<>>
    ELSE (IF Head(names) \in DOMAIN node.f THEN ValueIds(node.f[Head(names)]) ELSE <<>>)
         \o FieldIds(node, Tail(names))

\* the child nodes of n in the order ast.Walk visits them
Children(h, n) == FieldIds(h[n], WalkFields(h[n].kind))

nodeTypeMatches(h, n, typeName) == h[n].kind = typeName

fieldMap ==
    [name |-> "Name", type |-> "Type", recv |-> "Recv", body |-> "Body",
     params |-> "Params", results |-> "Results", fields |-> "Fields",
     list |-> "List", fun |-> "Fun", args |-> "Args", x |-> "X", sel |-> "Sel",
     tok |-> "Tok", specs |-> "Specs", decls |-> "Decls", names |-> "Names",
     tag |-> "Tag", value |-> "Value", values |-> "Values", elts |-> "Elts",
     elt |-> "Elt", key |-> "Key", len |-> "Len", lhs |-> "Lhs", rhs |-> "Rhs",
     cond |-> "Cond", init |-> "Init", post |-> "Post", op |-> "Op"]

\* strings.ToUpper(name[:1]) + name[1:] on the field names of the model
\* that are not in fieldMap
upperFirst == [path |-> "Path", kind |-> "Kind", call |-> "Call"]

mapFieldName(name) ==
    IF name \in DOMAIN fieldMap THEN fieldMap[name]
    ELSE IF name \in DOMAIN upperFirst THEN upperFirst[name]
    ELSE name

getField(h, n, name) ==
    LET goFieldName == mapFieldName(name)
    IN IF goFieldName \in DOMAIN h[n].f THEN h[n].f[goFieldName] ELSE NilV

\* toNode: the node a value is, 0 for none
toNode(v) == IF v.t = "node" THEN v.id ELSE 0

\* toSlice: [ok |-> FALSE] stands for the nil result
toSlice(h, v) ==
    IF v.t = "nil" THEN [ok |-> FALSE, items |-> <<>>]
    ELSE IF v.t = "node" /\ h[v.id].kind = "FieldList"
    THEN LET l == h[v.id].f.List
         IN IF l.isnil THEN [ok |-> FALSE, items |-> <<>>]
            ELSE [ok |-> TRUE, items |-> [i \in 1..Len(l.ids) |-> Nd(l.ids[i])]]
    ELSE IF v.t = "list"
    THEN [ok |-> TRUE, items |-> [i \in 1..Len(v.ids) |-> Nd(v.ids[i])]]
    ELSE [ok |-> FALSE, items |-> <<>>]

(***************************************************************************)
(* Bindings: a map from binding names to values.                           *)
(***************************************************************************)
NoBindings == [k \in {} |-> NilV]

Bind(b, name, v) == [k \in DOMAIN b \cup {name} |-> IF k = name THEN v ELSE b[k]]

\* the range over mb of "merged[k] = v" on a copy of ma
Merge(ma, mb) == [k \in DOMAIN ma \cup DOMAIN mb |-> IF k \in DOMAIN mb THEN mb[k] ELSE ma[k]]

Match(n, b) == [node |-> n, bindings |-> b]

(***************************************************************************)
(* Patterns (package grammar).                                             *)
(***************************************************************************)
Wild == [k |-> "wild"]
Binding(name) == [k |-> "binding", name |-> name]
Spread(name) == [k |-> "spread", name |-> name]
Exact(s) == [k |-> "exact", s |-> s]
Pattern(nodeType, fields) == [k |-> "pattern", nodeType |-> nodeType, fields |-> fields]
List(items) == [k |-> "list", items |-> items]
FieldMatch(name, value) == [name |-> name, value |-> value]
MatchStmt(nodeType, in, fields) == [nodeType |-> nodeType, in |-> in, fields |-> fields]
NoIn == ""

(***************************************************************************)
(* Unification (package matcher).  A result is [ok, b]: whether the        *)
(* pattern unified, and the bindings map as the attempt left it.           *)
(***************************************************************************)
\* as matchExact, but a string value is not compared
matchExactIdentOnly(h, value, expected) ==
    CASE value.t = "node" /\ h[value.id].kind = "Ident" -> h[value.id].f.Name.s = expected
      [] OTHER -> FALSE

matchExact(h, value, expected) ==
    CASE value.t = "node" /\ h[value.id].kind = "Ident" -> h[value.id].f.Name.s = expected
      [] value.t = "str" -> value.s = expected
      [] OTHER -> FALSE

RECURSIVE matchValue(_, _, _, _)
RECURSIVE matchField(_, _, _, _)
RECURSIVE matchFields(_, _, _, _)
RECURSIVE matchList(_, _, _, _)

matchASTPattern(h, value, pattern, b) ==
    LET node == toNode(value)
    IN IF node = 0 THEN [ok |-> FALSE, b |-> b]
       ELSE IF ~nodeTypeMatches(h, node, pattern.nodeType) THEN [ok |-> FALSE, b |-> b]
       ELSE matchFields(h, node, pattern.fields, b)

matchValue(h, value, pattern, b) ==
    CASE pattern.k = "wild" -> [ok |-> TRUE, b |-> b]
      [] pattern.k = "binding" -> [ok |-> TRUE, b |-> Bind(b, pattern.name, value)]
      [] pattern.k = "spread" -> [ok |-> TRUE, b |-> Bind(b, pattern.name, value)]
      [] pattern.k = "exact" -> [ok |-> matchExact(h, value, Trim(pattern.s, QUOTE)), b |-> b]
      [] pattern.k = "pattern" -> matchASTPattern(h, value, pattern, b)
      [] pattern.k = "list" ->
            LET sl == toSlice(h, value)
            IN IF ~sl.ok THEN [ok |-> FALSE, b |-> b]
               ELSE IF Len(pattern.items) # Len(sl.items) THEN [ok |-> FALSE, b |-> b]
               ELSE matchList(h, sl.items, pattern.items, b)
      [] OTHER -> [ok |-> FALSE, b |-> b]

\* the positional loop of matchList over items and patterns of equal length
matchList(h, items, patterns, b) ==
    IF patterns = <<>> THEN [ok |-> TRUE, b |-> b]
    ELSE LET r == matchValue(h, Head(items), Head(patterns), b)
         IN IF ~r.ok THEN r ELSE matchList(h, Tail(items), Tail(patterns), r.b)

matchField(h, n, field, b) ==
    LET fieldValue == getField(h, n, field.name)
    IN IF fieldValue.t = "nil" /\ field.value.k # "wild"
       THEN IF field.value.k = "binding"
            THEN [ok |-> TRUE, b |-> Bind(b, field.value.name, NilV)]
            ELSE IF field.value.k = "spread" THEN [ok |-> TRUE, b |-> b]
            ELSE [ok |-> FALSE, b |-> b]
       ELSE matchValue(h, fieldValue, field.value, b)

matchFields(h, n, fields, b) ==
    IF fields = <<>> THEN [ok |-> TRUE, b |-> b]
    ELSE LET r == matchField(h, n, Head(fields), b)
         IN IF ~r.ok THEN r ELSE matchFields(h, n, Tail(fields), r.b)

\* as inspectStmt, but the walk does not descend below a matched node
RECURSIVE inspectStmtPruned(_, _, _, _)
RECURSIVE inspectStmtPrunedAll(_, _, _, _)
inspectStmtPruned(h, stmt, n, inherited) ==
    LET r == matchFields(h, n, stmt.fields, inherited)
    IN IF nodeTypeMatches(h, n, stmt.nodeType) /\ r.ok
       THEN <<Match(n, r.b)>>
       ELSE inspectStmtPrunedAll(h, stmt, Children(h, n), inherited)

inspectStmtPrunedAll(h, stmt, ns, inherited) ==
    IF ns = <<>> THEN <<>>
    ELSE inspectStmtPruned(h, stmt, Head(ns), inherited)
         \o inspectStmtPrunedAll(h, stmt, Tail(ns), inherited)

\* ast.Inspect from node n with matchStmt's callback: the matches of n's
\* subtree in visiting order
RECURSIVE inspectStmt(_, _, _, _)
RECURSIVE inspectStmtAll(_, _, _, _)
inspectStmt(h, stmt, n, inherited) ==
    LET r == matchFields(h, n, stmt.fields, inherited)
        here == IF nodeTypeMatches(h, n, stmt.nodeType) /\ r.ok
                THEN <<Match(n, r.b)>> ELSE <<>>
    IN here \o inspectStmtAll(h, stmt, Children(h, n), inherited)

inspectStmtAll(h, stmt, ns, inherited) ==
    IF ns = <<>> THEN <<>>
    ELSE inspectStmt(h, stmt, Head(ns), inherited)
         \o inspectStmtAll(h, stmt, Tail(ns), inherited)

matchStmt(h, stmt, scope, inherited) == inspectStmt(h, stmt, scope, inherited)

crossJoin(a, b) ==
    IF Len(a) = 0 THEN b
    ELSE IF Len(b) = 0 THEN a
    ELSE [i \in 1..(Len(a) * Len(b)) |->
            LET ma == a[((i - 1) \div Len(b)) + 1]
                mb == b[((i - 1) % Len(b)) + 1]
            IN Match(ma.node, Merge(ma.bindings, mb.bindings))]

\* the `in $Binding` branch of MatchBlock's loop
RECURSIVE matchIn(_, _, _)
matchIn(h, stmt, ms) ==
    IF ms = <<>> THEN <<>>
    ELSE LET match == Head(ms)
             sub == IF stmt.in \in DOMAIN match.bindings
                       /\ match.bindings[stmt.in].t = "node"
                    THEN matchStmt(h, stmt, match.bindings[stmt.in].id, match.bindings)
                    ELSE <<>>
         IN sub \o matchIn(h, stmt, Tail(ms))

\* one iteration (i >= 1) of MatchBlock's loop over the later matchers
matchNext(h, stmt, ms) ==
    IF stmt.in = NoIn THEN crossJoin(ms, matchStmt(h, stmt, FileRoot, NoBindings))
    ELSE matchIn(h, stmt, ms)

(***************************************************************************)
(* Predicates (package grammar) and their evaluation (package matcher).    *)
(***************************************************************************)
Not(p) == [k |-> "not", p |-> p]
ContainsPred(binding, pattern) == [k |-> "contains", binding |-> binding, pattern |-> pattern]
LenPred(binding, op, value) == [k |-> "len", binding |-> binding, op |-> op, value |-> value]
MemberPred(binding, values) == [k |-> "member", binding |-> binding, values |-> values]
PropertyPred(binding, property) == [k |-> "prop", binding |-> binding, property |-> property]

UpperLetters == {"A","B","C","D","E","F","G","H","I","J","K","L","M",
                 "N","O","P","Q","R","S","T","U","V","W","X","Y","Z"}

\* as inspectContains, but the walk stops below the children of n
inspectContainsShallow(h, pattern, n) ==
    \E c \in {n} \cup {Children(h, n)[i] : i \in DOMAIN Children(h, n)} :
        /\ nodeTypeMatches(h, c, pattern.nodeType)
        /\ matchFields(h, c, pattern.fields, NoBindings).ok

\* as inspectContains, but only the node the walk starts from is tried
inspectContainsRootOnly(h, pattern, n) ==
    /\ nodeTypeMatches(h, n, pattern.nodeType)
    /\ matchFields(h, n, pattern.fields, NoBindings).ok

\* ast.Inspect from node n with evalContains's callback: whether a node
\* of the subtree is found before the walk ends
RECURSIVE inspectContains(_, _, _)
RECURSIVE inspectContainsAny(_, _, _)
inspectContains(h, pattern, n) ==
    \/ /\ nodeTypeMatches(h, n, pattern.nodeType)
       /\ matchFields(h, n, pattern.fields, NoBindings).ok
    \/ inspectContainsAny(h, pattern, Children(h, n))

inspectContainsAny(h, pattern, ns) ==
    IF ns = <<>> THEN FALSE
    ELSE inspectContains(h, pattern, Head(ns)) \/ inspectContainsAny(h, pattern, Tail(ns))

evalContains(h, pred, b) ==
    IF pred.binding \notin DOMAIN b THEN FALSE
    ELSE IF b[pred.binding].t # "node" THEN FALSE
    ELSE inspectContains(h, pred.pattern, b[pred.binding].id)

getLength(h, v) ==
    CASE v.t = "nil" -> 0
      [] v.t = "node" /\ h[v.id].kind = "FieldList" -> Len(h[v.id].f.List.ids)
      [] v.t = "list" -> Len(v.ids)
      [] OTHER -> 0

evalLenCheck(h, pred, b) ==
    IF pred.binding \notin DOMAIN b THEN FALSE
    ELSE LET length == getLength(h, b[pred.binding])
         IN CASE pred.op = ">" -> length > pred.value
              [] pred.op = ">=" -> length >= pred.value
              [] pred.op = "<" -> length < pred.value
              [] pred.op = "<=" -> length <= pred.value
              [] pred.op = "==" -> length = pred.value
              [] pred.op = "!=" -> length # pred.value
              [] OTHER -> FALSE

evalMemberCheck(h, pred, b) ==
    IF pred.binding \notin DOMAIN b THEN FALSE
    ELSE LET val == b[pred.binding]
         IN CASE val.t = "node" /\ h[val.id].kind = "Ident" ->
                    \E i \in 1..Len(pred.values) :
                        Trim(pred.values[i], QUOTE) = h[val.id].f.Name.s
              [] val.t = "str" ->
                    \E i \in 1..Len(pred.values) : Trim(pred.values[i], QUOTE) = val.s
              [] OTHER -> FALSE

isExported(h, v) ==
    CASE v.t = "node" /\ h[v.id].kind = "Ident" ->
            Len(h[v.id].f.Name.s) > 0 /\ h[v.id].f.Name.s[1] \in UpperLetters
      [] v.t = "str" -> Len(v.s) > 0 /\ v.s[1] \in UpperLetters
      [] OTHER -> FALSE

evalPropCheck(h, pred, b) ==
    IF pred.binding \notin DOMAIN b THEN FALSE
    ELSE LET val == b[pred.binding]
         IN CASE pred.property = "exported" -> isExported(h, val)
              [] pred.property = "pointer" -> val.t = "node" /\ h[val.id].kind = "StarExpr"
              [] pred.property = "slice" -> val.t = "node" /\ h[val.id].kind = "ArrayType"
              [] pred.property = "map" -> val.t = "node" /\ h[val.id].kind = "MapType"
              [] pred.property = "error" ->
                    val.t = "node" /\ h[val.id].kind = "Ident" /\ h[val.id].f.Name.s = sError
              [] OTHER -> FALSE

\* as EvalPredicate, but the negation of a predicate on a name that is not
\* bound is false as well
RECURSIVE EvalPredicateUnboundFalse(_, _, _)
EvalPredicateUnboundFalse(h, pred, b) ==
    CASE pred.k = "not" ->
            IF pred.p.k \in {"contains", "len", "member", "prop"}
               /\ pred.p.binding \notin DOMAIN b
            THEN FALSE
            ELSE ~EvalPredicateUnboundFalse(h, pred.p, b)
      [] pred.k = "contains" -> evalContains(h, pred, b)
      [] pred.k = "len" -> evalLenCheck(h, pred, b)
      [] pred.k = "member" -> evalMemberCheck(h, pred, b)
      [] pred.k = "prop" -> evalPropCheck(h, pred, b)
      [] OTHER -> FALSE

RECURSIVE EvalPredicate(_, _, _)
EvalPredicate(h, pred, b) ==
    CASE pred.k = "not" -> ~EvalPredicate(h, pred.p, b)
      [] pred.k = "contains" -> evalContains(h, pred, b)
      [] pred.k = "len" -> evalLenCheck(h, pred, b)
      [] pred.k = "member" -> evalMemberCheck(h, pred, b)
      [] pred.k = "prop" -> evalPropCheck(h, pred, b)
      [] OTHER -> FALSE

\* as passes, but one where-clause whose predicates hold is enough
passesSomeClause(h, whereClauses, b) ==
    \E w \in 1..Len(whereClauses) :
        \A p \in 1..Len(whereClauses[w]) : EvalPredicate(h, whereClauses[w][p], b)

\* the two inner loops of FilterMatches: whether the match passes
passes(h, whereClauses, b) ==
    \A w \in 1..Len(whereClauses) :
        \A p \in 1..Len(whereClauses[w]) : EvalPredicate(h, whereClauses[w][p], b)

RECURSIVE filterLoop(_, _, _)
filterLoop(h, ms, whereClauses) ==
    IF ms = <<>> THEN <<>>
    ELSE (IF passes(h, whereClauses, Head(ms).bindings) THEN <<Head(ms)>> ELSE <<>>)
         \o filterLoop(h, Tail(ms), whereClauses)

FilterMatches(h, ms, whereClauses) ==
    IF Len(whereClauses) = 0 THEN ms ELSE filterLoop(h, ms, whereClauses)

(***************************************************************************)
(* Template interpolation (package executor).                              *)
(***************************************************************************)
Uppers == <<"A","B","C","D","E","F","G","H","I","J","K","L","M",
            "N","O","P","Q","R","S","T","U","V","W","X","Y","Z">>
Lowers == <<"a","b","c","d","e","f","g","h","i","j","k","l","m",
            "n","o","p","q","r","s","t","u","v","w","x","y","z">>
Digits == {"0","1","2","3","4","5","6","7","8","9"}
Letters == {Uppers[i] : i \in 1..Len(Uppers)} \cup {Lowers[i] : i \in 1..Len(Lowers)}
\* the regexp classes \w and \s
WordChars == Letters \cup Digits \cup {"_"}
SpaceChars == {" ", "\t", "\n", "\r", "\f"}

ToUpperCh(c) ==
    IF \E i \in 1..Len(Lowers) : Lowers[i] = c
    THEN Uppers[CHOOSE i \in 1..Len(Lowers) : Lowers[i] = c] ELSE c

ToLowerCh(c) ==
    IF \E i \in 1..Len(Uppers) : Uppers[i] = c
    THEN Lowers[CHOOSE i \in 1..Len(Uppers) : Uppers[i] = c] ELSE c

ToUpper(s) == [i \in 1..Len(s) |-> ToUpperCh(s[i])]
ToLower(s) == [i \in 1..Len(s) |-> ToLowerCh(s[i])]

\* the number of consecutive characters of class cls in s from position i
RECURSIVE Run(_, _, _)
Run(s, i, cls) == IF i <= Len(s) /\ s[i] \in cls THEN 1 + Run(s, i + 1, cls) ELSE 0

\* a binding name as the map key it is
RECURSIVE KeyOf(_)
KeyOf(chars) == IF chars = <<>> THEN "" ELSE Head(chars) \o KeyOf(Tail(chars))

RECURSIVE toSnakeCaseFrom(_, _)
toSnakeCaseFrom(s, i) ==
    IF i > Len(s) THEN <<>>
    ELSE (IF i > 1 /\ s[i] \in UpperLetters THEN <<"_", s[i]>> ELSE <<s[i]>>)
         \o toSnakeCaseFrom(s, i + 1)

toSnakeCase(s) == ToLower(toSnakeCaseFrom(s, 1))

RECURSIVE JoinAll(_)
JoinAll(parts) == IF parts = <<>> THEN <<>> ELSE Head(parts) \o JoinAll(Tail(parts))

toCamelCase(s) ==
    LET parts == Split(s, <<"_">>)
    IN JoinAll([i \in 1..Len(parts) |->
                  IF i > 1 /\ Len(parts[i]) > 0
                  THEN <<ToUpperCh(parts[i][1])>> \o SubSeq(parts[i], 2, Len(parts[i]))
                  ELSE parts[i]])

applyTransform(s, transform) ==
    CASE transform = <<"s","n","a","k","e","_","c","a","s","e">> -> toSnakeCase(s)
      [] transform = <<"l","o","w","e","r">> -> ToLower(s)
      [] transform = <<"u","p","p","e","r">> -> ToUpper(s)
      [] transform = <<"c","a","m","e","l","_","c","a","s","e">> -> toCamelCase(s)
      [] OTHER -> s

\* fmt's %v of a value that is neither an identifier, a string nor a basic
\* literal: an opaque text
bindingToString(h, v) ==
    CASE v.t = "node" /\ h[v.id].kind = "Ident" -> h[v.id].f.Name.s
      [] v.t = "str" -> v.s
      [] v.t = "node" /\ h[v.id].kind = "BasicLit" -> h[v.id].f.Value.s
      [] v.t = "nil" -> <<"<","n","i","l",">">>
      [] OTHER -> <<"%v">>

\* the match of \$\{(\w+)(?:\s*\|\s*(\w+))?\} that starts at position i
\* of text: its length (0 for none), name and transform.  The name is the
\* n word characters from i + 2; a transform is the m word characters
\* from t, after the bar at position bar.
reNone == [len |-> 0, name |-> <<>>, transform |-> <<>>]

reClose(text, i, n, t, m) ==
    IF m > 0 /\ t + m <= Len(text) /\ text[t + m] = "}"
    THEN [len |-> t + m - i + 1, name |-> SubSeq(text, i + 2, i + 1 + n),
          transform |-> SubSeq(text, t, t + m - 1)]
    ELSE reNone

reTransform(text, i, n, t) == reClose(text, i, n, t, Run(text, t, WordChars))

reBar(text, i, n, bar) ==
    IF bar <= Len(text) /\ text[bar] = "|"
    THEN reTransform(text, i, n, bar + 1 + Run(text, bar + 1, SpaceChars))
    ELSE reNone

reName(text, i, n) ==
    IF n = 0 THEN reNone
    ELSE IF i + 2 + n <= Len(text) /\ text[i + 2 + n] = "}"
    THEN [len |-> n + 3, name |-> SubSeq(text, i + 2, i + 1 + n), transform |-> <<>>]
    ELSE reBar(text, i, n, i + 2 + n + Run(text, i + 2 + n, SpaceChars))

reMatchAt(text, i) ==
    IF i + 1 <= Len(text) /\ text[i] = "$" /\ text[i + 1] = "{"
    THEN reName(text, i, Run(text, i + 2, WordChars))
    ELSE reNone

\* as replacement, but a placeholder whose name is not bound is dropped
replacementDropsUnbound(h, b, whole, name, transform) ==
    IF name \notin DOMAIN b THEN <<>>
    ELSE IF transform # <<>> THEN applyTransform(bindingToString(h, b[name]), transform)
    ELSE bindingToString(h, b[name])

\* the callback of ReplaceAllStringFunc on the match mt, name being its key
replacement(h, b, whole, name, transform) ==
    IF name \notin DOMAIN b THEN whole
    ELSE IF transform # <<>> THEN applyTransform(bindingToString(h, b[name]), transform)
    ELSE bindingToString(h, b[name])

RECURSIVE interpolateFrom(_, _, _, _)
interpolateAt(h, text, b, i, mt) ==
    IF mt.len = 0 THEN <<text[i]>> \o interpolateFrom(h, text, b, i + 1)
    ELSE replacement(h, b, SubSeq(text, i, i + mt.len - 1), KeyOf(mt.name), mt.transform)
         \o interpolateFrom(h, text, b, i + mt.len)

interpolateFrom(h, text, b, i) ==
    IF i > Len(text) THEN <<>> ELSE interpolateAt(h, text, b, i, reMatchAt(text, i))

interpolate(h, text, b) == interpolateFrom(h, text, b, 1)

(***************************************************************************)
(* Actions (package grammar).                                              *)
(***************************************************************************)
None == [k |-> "none"]
InsertPos(kind, binding) == [kind |-> kind, binding |-> binding]
InsertClause(mode, position, code) ==
    [k |-> "insert", mode |-> mode, position |-> position, code |-> code]
CodeBlock(text) == [k |-> "code", text |-> text]
PatchClause(stmts) == [k |-> "patch", stmts |-> stmts]
ConditionalPatch(condition, stmts) == [k |-> "if", condition |-> condition, stmts |-> stmts]
FieldPath(binding, segments) == [binding |-> binding, segments |-> segments]
ExprString(str) == [k |-> "string", s |-> str]
ExprNumber(n) == [k |-> "number", n |-> n]
SetStmt(path, value) == [k |-> "set", path |-> path, value |-> value]
RenameStmt(binding, newName) == [k |-> "rename", binding |-> binding, newName |-> newName]
RetypeStmt(binding, newType) == [k |-> "retype", binding |-> binding, newType |-> newType]
DeleteClause(stmts) == [k |-> "delete", stmts |-> stmts]
EmitClause(file, package, body) ==
    [k |-> "emit", file |-> file, package |-> package, body |-> body]
TplEmitBlock(text) == [k |-> "template", text |-> text]
CodeEmitBlock(text) == [k |-> "code", text |-> text]
ASTEmitBlock == [k |-> "ast"]
LiftBlock(from, where, actions) == [from |-> from, where |-> where, actions |-> actions]

(***************************************************************************)
(* The executor's operations.  Each takes the tree and the import-to-add   *)
(* set and returns them as it leaves them, with the error it returns       *)
(* ("" for nil).                                                           *)
(***************************************************************************)
Ok(h, imp) == [err |-> "", h |-> h, imports |-> imp]
Fail(msg, h, imp) == [err |-> msg, h |-> h, imports |-> imp]

SetField(h, id, fname, v) ==
    [h EXCEPT ![id].f = [k \in DOMAIN @ \cup {fname} |-> IF k = fname THEN v ELSE @[k]]]

\* append(a, b...)
AppendSlices(a, b) ==
    [t |-> "list", ids |-> a.ids \o b.ids, isnil |-> a.isnil /\ b.ids = <<>>]

IsIdentText(s) == s # <<>> /\ Run(s, 1, WordChars) = Len(s) /\ s[1] \notin Digits

\* go/parser on one statement of the model's payloads: a call `f()` or
\* `x.f()`; <<>> for any other text
parseSelectorCall(parts) ==
    IF Len(parts) = 2 /\ IsIdentText(parts[1]) /\ IsIdentText(parts[2])
    THEN << N("ExprStmt", [X |-> Nd(2)]),
            N("CallExpr", [Fun |-> Nd(3), Args |-> NilSlice]),
            N("SelectorExpr", [X |-> Nd(4), Sel |-> Nd(5)]),
            Ident(parts[1]),
            Ident(parts[2]) >>
    ELSE <<>>

parseCall(callee) ==
    IF IsIdentText(callee)
    THEN << N("ExprStmt", [X |-> Nd(2)]),
            N("CallExpr", [Fun |-> Nd(3), Args |-> NilSlice]),
            Ident(callee) >>
    ELSE parseSelectorCall(SplitN2(callee, <<".">>))

parseStmt(line) ==
    IF Len(line) > 2 /\ line[Len(line) - 1] = "(" /\ line[Len(line)] = ")"
    THEN parseCall(SubSeq(line, 1, Len(line) - 2))
    ELSE <<>>

TrimBlank(s) == TrimRight(TrimLeft(TrimRight(TrimLeft(s, " "), " "), "\t"), "\t")

RECURSIVE DropEmpty(_)
DropEmpty(ss) ==
    IF ss = <<>> THEN <<>>
    ELSE (IF Head(ss) = <<>> THEN <<>> ELSE <<Head(ss)>>) \o DropEmpty(Tail(ss))

TrimLines(raw) == DropEmpty([i \in 1..Len(raw) |-> TrimBlank(raw[i])])

ParseLines(lines) == [i \in 1..Len(lines) |-> parseStmt(lines[i])]

ParseResult(stmts) == [ok |-> \A i \in 1..Len(stmts) : stmts[i] # <<>>, stmts |-> stmts]

\* parseStatements: the statements of code, one per line, each a block of
\* nodes; ok is FALSE when the parser rejects the text
parseStatements(code) == ParseResult(ParseLines(TrimLines(Split(code, <<"\n">>))))

selectorOf(parts) ==
    << N("SelectorExpr", [X |-> Nd(2), Sel |-> Nd(3)]), Ident(parts[1]), Ident(parts[2]) >>

parseTypeExpr(typeStr) ==
    IF Contains(typeStr, <<".">>) THEN selectorOf(SplitN2(typeStr, <<".">>))
    ELSE << Ident(typeStr) >>

\* as insertStmts, but with the operands of the two appends exchanged
insertStmtsSwapped(kind, blockStmt, lay, h, imp) ==
    IF kind = "prepend"
    THEN Ok(SetField(h \o lay.nodes, blockStmt, "List",
                     AppendSlices(h[blockStmt].f.List,
                                  IF lay.roots = <<>> THEN NilSlice ELSE Ls(lay.roots))), imp)
    ELSE IF kind = "append"
    THEN Ok(SetField(h \o lay.nodes, blockStmt, "List",
                     AppendSlices(IF lay.roots = <<>> THEN NilSlice ELSE Ls(lay.roots),
                                  h[blockStmt].f.List)), imp)
    ELSE Fail("insert position not yet supported", h, imp)

\* as insertStmts, but a block that already holds a call of a function the
\* payload calls is left as it is
insertStmtsOncePerBlock(kind, blockStmt, lay, h, imp) ==
    IF \E i \in DOMAIN h[blockStmt].f.List.ids :
            /\ h[h[blockStmt].f.List.ids[i]].kind = "ExprStmt"
            /\ h[h[h[blockStmt].f.List.ids[i]].f.X.id].kind = "CallExpr"
            /\ h[h[h[h[blockStmt].f.List.ids[i]].f.X.id].f.Fun.id].kind = "Ident"
            /\ \E j \in DOMAIN lay.nodes :
                    lay.nodes[j] = h[h[h[h[blockStmt].f.List.ids[i]].f.X.id].f.Fun.id]
    THEN Ok(h, imp)
    ELSE IF kind = "prepend"
    THEN Ok(SetField(h \o lay.nodes, blockStmt, "List",
                     AppendSlices(IF lay.roots = <<>> THEN NilSlice ELSE Ls(lay.roots),
                                  h[blockStmt].f.List)), imp)
    ELSE IF kind = "append"
    THEN Ok(SetField(h \o lay.nodes, blockStmt, "List",
                     AppendSlices(h[blockStmt].f.List,
                                  IF lay.roots = <<>> THEN NilSlice ELSE Ls(lay.roots))), imp)
    ELSE Fail("insert position not yet supported", h, imp)

\* executeInsert from "Apply based on position": the parsed statements
\* are laid out as lay behind the nodes of the tree
insertStmts(kind, blockStmt, lay, h, imp) ==
    IF kind = "prepend"
    THEN Ok(SetField(h \o lay.nodes, blockStmt, "List",
                     AppendSlices(IF lay.roots = <<>> THEN NilSlice ELSE Ls(lay.roots),
                                  h[blockStmt].f.List)), imp)
    ELSE IF kind = "append"
    THEN Ok(SetField(h \o lay.nodes, blockStmt, "List",
                     AppendSlices(h[blockStmt].f.List,
                                  IF lay.roots = <<>> THEN NilSlice ELSE Ls(lay.roots))), imp)
    ELSE Fail("insert position not yet supported", h, imp)

\* executeInsert from "Parse as statements"
insertParsed(kind, blockStmt, parsed, h, imp) ==
    IF ~parsed.ok THEN Fail("parse insert code", h, imp)
    ELSE insertStmts(kind, blockStmt, LayOut(parsed.stmts, Len(h)), h, imp)

\* executeInsert from "Track imports needed"
insertCode(kind, blockStmt, codeText, h, imp) ==
    insertParsed(kind, blockStmt, parseStatements(codeText), h,
                 imp \cup (IF Contains(codeText, sContextDot) THEN {sContext} ELSE {})
                     \cup (IF Contains(codeText, sTimeDot) THEN {sTime} ELSE {}))

executeInsert(ins, b, h, imp) ==
    IF ins.mode # "code" THEN Fail("insert mode not yet supported", h, imp)
    ELSE IF ins.code = None THEN Fail("insert code requires code block", h, imp)
    ELSE IF ins.position.binding = NoIn THEN Fail("insert requires target binding", h, imp)
    ELSE IF ins.position.binding \notin DOMAIN b
    THEN Fail("binding $" \o ins.position.binding \o " not found", h, imp)
    ELSE IF ~(b[ins.position.binding].t = "node"
              /\ h[b[ins.position.binding].id].kind = "BlockStmt")
    THEN Fail("$" \o ins.position.binding \o " is not a BlockStmt", h, imp)
    ELSE insertCode(ins.position.kind, b[ins.position.binding].id,
                    interpolate(h, Trim(ins.code.text, BACKTICK), b), h, imp)

\* &ast.Field{Names: []*ast.Ident{{Name: name}}, Type: typeNodes}
newFieldOf(name, typeNodes) ==
    << N("Field", [Names |-> Ls(<<2>>), Type |-> Nd(3)]), Ident(name) >>
    \o Shift(typeNodes, 2)

\* as setFirst, but the new field goes behind the old ones
setFirstAppended(fl, parts, h, imp) ==
    IF Len(parts) # 2 THEN Fail("invalid field spec", h, imp)
    ELSE Ok(SetField(h \o Shift(newFieldOf(parts[1], parseTypeExpr(parts[2])), Len(h)),
                     fl, "List", Ls(h[fl].f.List.ids \o <<Len(h) + 1>>)),
            imp \cup (IF Contains(parts[2], sContextDot) THEN {sContext} ELSE {}))

\* executeSet from "Parse the field spec", fl being the field list
setFirst(fl, parts, h, imp) ==
    IF Len(parts) # 2 THEN Fail("invalid field spec", h, imp)
    ELSE Ok(SetField(h \o Shift(newFieldOf(parts[1], parseTypeExpr(parts[2])), Len(h)),
                     fl, "List", Ls(<<Len(h) + 1>> \o h[fl].f.List.ids)),
            imp \cup (IF Contains(parts[2], sContextDot) THEN {sContext} ELSE {}))

executeSet(set, b, h, imp) ==
    IF set.path.binding \notin DOMAIN b
    THEN Fail("binding $" \o set.path.binding \o " not found", h, imp)
    ELSE IF set.path.segments = <<"first">>
    THEN IF ~(b[set.path.binding].t = "node" /\ h[b[set.path.binding].id].kind = "FieldList")
         THEN Fail("$" \o set.path.binding \o " is not a FieldList", h, imp)
         ELSE IF set.value.k # "string" THEN Fail("set value must be a string", h, imp)
         ELSE setFirst(b[set.path.binding].id, SplitN2(Trim(set.value.s, QUOTE), <<" ">>), h, imp)
    ELSE Fail("set path not yet supported", h, imp)

\* as executePatchStmt, but a rename rewrites every identifier that has
\* the old name
executePatchStmtRenameAll(stmt, b, h, imp) ==
    CASE stmt.k = "rename" ->
            IF stmt.binding \notin DOMAIN b
            THEN Fail("binding $" \o stmt.binding \o " not found", h, imp)
            ELSE IF ~(b[stmt.binding].t = "node" /\ h[b[stmt.binding].id].kind = "Ident")
            THEN Fail("$" \o stmt.binding \o " is not an identifier", h, imp)
            ELSE Ok([n \in DOMAIN h |->
                        IF h[n].kind = "Ident" /\ h[n].f.Name = h[b[stmt.binding].id].f.Name
                        THEN N("Ident", [Name |-> St(Trim(stmt.newName, QUOTE))])
                        ELSE h[n]], imp)
      [] stmt.k = "set" -> executeSet(stmt, b, h, imp)
      [] stmt.k = "retype" -> Fail("retype not yet implemented", h, imp)
      [] OTHER -> Ok(h, imp)

executePatchStmt(stmt, b, h, imp) ==
    CASE stmt.k = "rename" ->
            IF stmt.binding \notin DOMAIN b
            THEN Fail("binding $" \o stmt.binding \o " not found", h, imp)
            ELSE IF ~(b[stmt.binding].t = "node" /\ h[b[stmt.binding].id].kind = "Ident")
            THEN Fail("$" \o stmt.binding \o " is not an identifier", h, imp)
            ELSE Ok(SetField(h, b[stmt.binding].id, "Name", St(Trim(stmt.newName, QUOTE))), imp)
      [] stmt.k = "set" -> executeSet(stmt, b, h, imp)
      [] stmt.k = "retype" -> Fail("retype not yet implemented", h, imp)
      [] OTHER -> Ok(h, imp)

\* a loop that applies executePatchStmt to stmts in order and returns at
\* the first error
RECURSIVE patchStmts(_, _, _, _)
patchStmts(stmts, b, h, imp) ==
    IF stmts = <<>> THEN Ok(h, imp)
    ELSE LET r == executePatchStmt(Head(stmts), b, h, imp)
         IN IF r.err # "" THEN r ELSE patchStmts(Tail(stmts), b, r.h, r.imports)

\* as patchLoop, but the nested statements of a conditional are applied
\* whatever its condition says
RECURSIVE patchLoopUnguarded(_, _, _, _)
patchLoopUnguarded(stmts, b, h, imp) ==
    IF stmts = <<>> THEN Ok(h, imp)
    ELSE LET stmt == Head(stmts)
             r == IF stmt.k = "if"
                  THEN patchStmts(stmt.stmts, b, h, imp)
                  ELSE executePatchStmt(stmt, b, h, imp)
         IN IF r.err # "" THEN r ELSE patchLoopUnguarded(Tail(stmts), b, r.h, r.imports)

RECURSIVE patchLoop(_, _, _, _)
patchLoop(stmts, b, h, imp) ==
    IF stmts = <<>> THEN Ok(h, imp)
    ELSE LET stmt == Head(stmts)
             r == IF stmt.k = "if"
                  THEN IF EvalPredicate(h, stmt.condition, b)
                       THEN patchStmts(stmt.stmts, b, h, imp)
                       ELSE Ok(h, imp)
                  ELSE executePatchStmt(stmt, b, h, imp)
         IN IF r.err # "" THEN r ELSE patchLoop(Tail(stmts), b, r.h, r.imports)

executePatch(patch, b, h, imp) == patchLoop(patch.stmts, b, h, imp)

executeDelete(del, b, h, imp) == Fail("delete not yet implemented", h, imp)

\* executeEmit: the content and the error
executeEmit(emit, b, h) ==
    CASE emit.body.k = "template" ->
            [err |-> "", content |-> interpolate(h, Trim(emit.body.text, BACKTICK), b)]
      [] emit.body.k = "code" ->
            LET content == interpolate(h, Trim(emit.body.text, BACKTICK), b)
            IN [err |-> "",
                content |-> IF emit.package # <<>>
                            THEN <<"p","a","c","k","a","g","e"," ">> \o emit.package
                                 \o <<"\n","\n">> \o content
                            ELSE content]
      [] emit.body.k = "ast" -> [err |-> "emit ast mode not yet implemented", content |-> <<>>]
      [] OTHER -> [err |-> "", content |-> <<>>]

\* the first import declaration among the file's top-level declarations,
\* 0 for none
importDeclOf(h) ==
    LET decls == h[FileRoot].f.Decls.ids
        hits == {i \in 1..Len(decls) :
                    h[decls[i]].kind = "GenDecl" /\ h[decls[i]].f.Tok = Tok("import")}
    IN IF hits = {} THEN 0 ELSE decls[CHOOSE i \in hits : \A j \in hits : i <= j]

\* the paths of the import specs of declaration gd
existingImports(h, gd) ==
    LET specs == h[gd].f.Specs.ids
    IN {Trim(h[h[specs[i]].f.Path.id].f.Value.s, QUOTE) :
            i \in {j \in 1..Len(specs) : h[specs[j]].kind = "ImportSpec"}}

\* importDecl.Specs = append(importDecl.Specs, &ast.ImportSpec{...})
appendSpec(h, gd, path) ==
    SetField(h \o << N("ImportSpec", [Path |-> Nd(Len(h) + 2)]),
                     N("BasicLit", [Kind |-> Tok("STRING"), Value |-> St(Q(path))]) >>,
             gd, "Specs", AppendSlices(h[gd].f.Specs, Ls(<<Len(h) + 1>>)))

\* as appendImports, but without the look at the existing imports
RECURSIVE appendImportsAlways(_, _, _, _)
appendImportsAlways(h, gd, existing, order) ==
    IF order = <<>> THEN h
    ELSE appendImportsAlways(appendSpec(h, gd, Head(order)), gd, existing, Tail(order))

\* the loop "Add missing imports", over the keys in the order given
RECURSIVE appendImports(_, _, _, _)
appendImports(h, gd, existing, order) ==
    IF order = <<>> THEN h
    ELSE IF Head(order) \in existing THEN appendImports(h, gd, existing, Tail(order))
    ELSE appendImports(appendSpec(h, gd, Head(order)), gd, existing, Tail(order))

\* "Ensure parentheses if multiple imports"
ensureParens(h, gd) ==
    IF Len(h[gd].f.Specs.ids) > 1
    THEN SetField(SetField(h, gd, "Lparen", Pos(1)), gd, "Rparen", Pos(1))
    ELSE h

\* "Create new import declaration" and insert it as the first declaration
newImportDecl(h) ==
    SetField(Append(h, N("GenDecl", [Tok |-> Tok("import"), Lparen |-> Pos(1),
                                     Rparen |-> Pos(1), Specs |-> NilSlice])),
             FileRoot, "Decls", AppendSlices(Ls(<<Len(h) + 1>>), h[FileRoot].f.Decls))

\* addImports once the import declaration gd is there
addImportsTo(h, gd, order) ==
    ensureParens(appendImports(h, gd, existingImports(h, gd), order), gd)

\* addImports; order is the order in which the range over the imports map
\* yields its keys
addImports(h, imp, order) ==
    IF imp = {} THEN h
    ELSE IF importDeclOf(h) # 0 THEN addImportsTo(h, importDeclOf(h), order)
    ELSE addImportsTo(newImportDecl(h), Len(h) + 1, order)

(***************************************************************************)
(* The apply run (cmdApply): for each block of the program, MatchBlock     *)
(* (one step per matcher), FilterMatches, then Execute (one step per       *)
(* action and match, then the import step and the rendering).              *)
(***************************************************************************)
block == prog[bi]

NoResult == [k |-> "none"]

\* the loop of cmdApply moves to the next block
NextBlock ==
    /\ bi' = IF bi < Len(prog) THEN bi + 1 ELSE bi
    /\ pc' = IF bi < Len(prog) THEN "match" ELSE "done"
    /\ mk' = 0

\* MatchBlock on a from-clause without matchers
MatchEmpty ==
    /\ pc = "match" /\ mk = 0 /\ Len(block.from) = 0
    /\ matches' = <<>>
    /\ pc' = "filter"
    /\ UNCHANGED <<heap, prog, bi, mk, ai, mi, imports, applied, emitted, lastResult, err, trace>>
    /\ UNCHANGED parser

\* MatchBlock: the first matcher against the whole file
MatchFirst ==
    /\ pc = "match" /\ mk = 0 /\ Len(block.from) > 0
    /\ matches' = matchStmt(heap, block.from[1], FileRoot, NoBindings)
    /\ mk' = 1
    /\ pc' = IF Len(block.from) = 1 THEN "filter" ELSE "match"
    /\ UNCHANGED <<heap, prog, bi, ai, mi, imports, applied, emitted, lastResult, err, trace>>
    /\ UNCHANGED parser

\* MatchBlock: one iteration of the loop over the later matchers
MatchNext ==
    /\ pc = "match" /\ mk >= 1 /\ mk < Len(block.from)
    /\ matches' = matchNext(heap, block.from[mk + 1], matches)
    /\ mk' = mk + 1
    /\ pc' = IF mk + 1 = Len(block.from) THEN "filter" ELSE "match"
    /\ UNCHANGED <<heap, prog, bi, ai, mi, imports, applied, emitted, lastResult, err, trace>>
    /\ UNCHANGED parser

\* FilterMatches, and the start of Execute when matches are left
Filter ==
    /\ pc = "filter"
    /\ matches' = FilterMatches(heap, matches, block.where)
    /\ IF Len(matches') = 0
       THEN /\ NextBlock
            /\ UNCHANGED <<ai, mi, applied, emitted, trace>>
       ELSE /\ pc' = IF Len(block.actions) = 0 THEN "imports" ELSE "exec"
            /\ ai' = 1 /\ mi' = 1
            /\ applied' = <<>>
            /\ emitted' = NoBindings
            /\ trace' = <<>>
            /\ UNCHANGED <<bi, mk>>
    /\ UNCHANGED <<heap, prog, imports, lastResult, err>>
    /\ UNCHANGED parser

\* as Advance, but with the loops nested the other way round: the next
\* action, then the next match
AdvanceMatchMajor ==
    /\ ai' = IF ai < Len(block.actions) THEN ai + 1 ELSE 1
    /\ mi' = IF ai < Len(block.actions) THEN mi ELSE mi + 1
    /\ pc' = IF mi = Len(matches) /\ ai = Len(block.actions) THEN "imports" ELSE "exec"
    /\ UNCHANGED <<bi, mk>>

\* as Advance, but the block is matched again after every step that is
\* not the last
AdvanceRematch ==
    /\ mi' = IF mi < Len(matches) THEN mi + 1 ELSE 1
    /\ ai' = IF mi < Len(matches) THEN ai ELSE ai + 1
    /\ pc' = IF mi = Len(matches) /\ ai = Len(block.actions) THEN "imports" ELSE "match"
    /\ mk' = 0
    /\ UNCHANGED bi

\* the two loops of Execute advance: the next match, then the next action
Advance ==
    /\ mi' = IF mi < Len(matches) THEN mi + 1 ELSE 1
    /\ ai' = IF mi < Len(matches) THEN ai ELSE ai + 1
    /\ pc' = IF mi = Len(matches) /\ ai = Len(block.actions) THEN "imports" ELSE "exec"
    /\ UNCHANGED <<bi, mk>>

\* Execute returns the error; cmdApply reports it and continues
Abort(msg) ==
    /\ err' = msg
    /\ NextBlock
    /\ UNCHANGED <<ai, mi>>

ExecStep(kind) ==
    /\ pc = "exec"
    /\ block.actions[ai].k = kind
    /\ trace' = Append(trace, <<ai, mi>>)

ExecInsert ==
    /\ ExecStep("insert")
    /\ LET r == executeInsert(block.actions[ai], matches[mi].bindings, heap, imports)
       IN /\ heap' = r.h
          /\ imports' = r.imports
          /\ IF r.err # ""
             THEN Abort("insert failed: " \o r.err) /\ UNCHANGED applied
             ELSE Advance /\ applied' = Append(applied, <<"insert">>) /\ UNCHANGED err
    /\ UNCHANGED <<prog, matches, emitted, lastResult>>
    /\ UNCHANGED parser

ExecPatch ==
    /\ ExecStep("patch")
    /\ LET r == executePatch(block.actions[ai], matches[mi].bindings, heap, imports)
       IN /\ heap' = r.h
          /\ imports' = r.imports
          /\ IF r.err # ""
             THEN Abort("patch failed: " \o r.err) /\ UNCHANGED applied
             ELSE Advance /\ applied' = Append(applied, <<"patch">>) /\ UNCHANGED err
    /\ UNCHANGED <<prog, matches, emitted, lastResult>>
    /\ UNCHANGED parser

ExecDelete ==
    /\ ExecStep("delete")
    /\ LET r == executeDelete(block.actions[ai], matches[mi].bindings, heap, imports)
       IN /\ heap' = r.h
          /\ imports' = r.imports
          /\ IF r.err # ""
             THEN Abort("delete failed: " \o r.err) /\ UNCHANGED applied
             ELSE Advance /\ applied' = Append(applied, <<"delete">>) /\ UNCHANGED err
    /\ UNCHANGED <<prog, matches, emitted, lastResult>>
    /\ UNCHANGED parser

\* as ExecEmit, but the content is put behind what the file already holds
ExecEmitConcat ==
    /\ ExecStep("emit")
    /\ LET r == executeEmit(block.actions[ai], matches[mi].bindings, heap)
           filename == Trim(block.actions[ai].file, QUOTE)
       IN IF r.err # ""
          THEN Abort("emit failed: " \o r.err) /\ UNCHANGED <<applied, emitted>>
          ELSE /\ Advance
               /\ emitted' = Bind(emitted, filename,
                                  IF filename \in DOMAIN emitted
                                  THEN emitted[filename] \o r.content ELSE r.content)
               /\ applied' = Append(applied, <<"emit:">> \o filename)
               /\ UNCHANGED err
    /\ UNCHANGED <<heap, prog, matches, imports, lastResult>>
    /\ UNCHANGED parser

ExecEmit ==
    /\ ExecStep("emit")
    /\ LET r == executeEmit(block.actions[ai], matches[mi].bindings, heap)
           filename == Trim(block.actions[ai].file, QUOTE)
       IN IF r.err # ""
          THEN Abort("emit failed: " \o r.err) /\ UNCHANGED <<applied, emitted>>
          ELSE /\ Advance
               /\ emitted' = Bind(emitted, filename, r.content)
               /\ applied' = Append(applied, <<"emit:">> \o filename)
               /\ UNCHANGED err
    /\ UNCHANGED <<heap, prog, matches, imports, lastResult>>
    /\ UNCHANGED parser

\* the end of Execute: addImports, then the rendering of the tree (the
\* rendered source is kept as the tree it renders)
AddImports ==
    /\ pc = "imports"
    /\ \E order \in {o \in [1..Cardinality(imports) -> imports] :
                        \A i, j \in DOMAIN o : i # j => o[i] # o[j]} :
            heap' = addImports(heap, imports, order)
    /\ lastResult' = [source |-> heap', emitted |-> emitted, applied |-> applied]
    /\ NextBlock
    /\ UNCHANGED <<prog, matches, ai, mi, imports, applied, emitted, err, trace>>
    /\ UNCHANGED parser

Next ==
    \/ MatchEmpty
    \/ MatchFirst
    \/ MatchNext
    \/ Filter
    \/ ExecInsert
    \/ ExecPatch
    \/ ExecDelete
    \/ ExecEmit
    \/ AddImports

(***************************************************************************)
(* The rules the runs are started with.                                    *)
(***************************************************************************)
F1(n, v) == <<FieldMatch(n, v)>>
F2(n1, v1, n2, v2) == <<FieldMatch(n1, v1), FieldMatch(n2, v2)>>
IdentNamed(s) == Pattern("Ident", F1("name", Exact(Q(s))))

\* match FuncDecl { name: $N type: FuncType { params: $P... results: $R... } body: $B }
mFunc == MatchStmt("FuncDecl", NoIn,
            <<FieldMatch("name", Binding("N")),
              FieldMatch("type", Pattern("FuncType",
                  F2("params", Spread("P"), "results", Spread("R")))),
              FieldMatch("body", Binding("B"))>>)
\* match FuncDecl { type: FuncType { results: $R } body: $B }
mFuncR == MatchStmt("FuncDecl", NoIn,
            F2("type", Pattern("FuncType", F1("results", Binding("R"))),
               "body", Binding("B")))
\* match FuncDecl { name: $X body: $X }
mDup == MatchStmt("FuncDecl", NoIn, F2("name", Binding("X"), "body", Binding("X")))
\* match CallExpr { fun: $F args: $A... }
mCall == MatchStmt("CallExpr", NoIn, F2("fun", Binding("F"), "args", Spread("A")))
\* match CallExpr { fun: SelectorExpr { x: Ident { name: "http" } sel: Ident { name: "Get" } } }
mExact == MatchStmt("CallExpr", NoIn,
            F1("fun", Pattern("SelectorExpr", F2("x", IdentNamed(sHttp), "sel", IdentNamed(sGet)))))
\* match FieldList { list: [Field { names: [$U] type: _ }] }
mList == MatchStmt("FieldList", NoIn,
            F1("list", List(<<Pattern("Field",
                F2("names", List(<<Binding("U")>>), "type", Wild))>>)))
\* match FuncDecl { name: $X... }
mSpreadNode == MatchStmt("FuncDecl", NoIn, F1("name", Spread("X")))
\* match Ident { name: $X... }
mSpreadStr == MatchStmt("Ident", NoIn, F1("name", Spread("X")))
\* match FuncType { params: [] }
mParamsNone == MatchStmt("FuncType", NoIn, F1("params", List(<<>>)))
\* match FieldList { list: [] }
mListNone == MatchStmt("FieldList", NoIn, F1("list", List(<<>>)))
\* match CallExpr { args: [$A1] }
mArgsOne == MatchStmt("CallExpr", NoIn, F1("args", List(<<Binding("A1")>>)))
\* match FuncType { params: [Field { type: Ident { name: "string" } }] }
mParamsOne == MatchStmt("FuncType", NoIn,
                F1("params", List(<<Pattern("Field", F1("type", IdentNamed(sString)))>>)))
\* match FuncDecl { name: "F" }
mNameF == MatchStmt("FuncDecl", NoIn, F1("name", Exact(Q(<<"F">>))))
\* match CallExpr { fun: SelectorExpr { sel: "WT" } }
mSelWT == MatchStmt("CallExpr", NoIn,
            F1("fun", Pattern("SelectorExpr", F1("sel", Exact(Q(sWithTimeout))))))
\* match File { name: $Pkg }
mFile == MatchStmt("File", NoIn, F1("name", Binding("Pkg")))
\* match StarExpr { }
mStar == MatchStmt("StarExpr", NoIn, <<>>)
\* match CallExpr in $B { fun: SelectorExpr { x: $X sel: $S } }
mCallInB == MatchStmt("CallExpr", "B",
            F1("fun", Pattern("SelectorExpr", F2("x", Binding("X"), "sel", Binding("S")))))
\* match Field in $R { type: $T }
mFieldInR == MatchStmt("Field", "R", F1("type", Binding("T")))
\* match Ident in $B { name: $N }
mIdentInB == MatchStmt("Ident", "B", F1("name", Binding("N")))
\* match Ident in $A { }
mIdentInA == MatchStmt("Ident", "A", <<>>)

FirstMatchers == {mFunc, mFuncR, mDup, mCall, mExact, mList, mFile, mStar,
                  mSpreadNode, mSpreadStr, mParamsNone, mListNone, mArgsOne, mParamsOne,
                  mNameF, mSelWT}
JoinMatchers == {mFunc, mCall, mFile, mStar}
InMatchers == {mCallInB, mFieldInR, mIdentInB}

Froms ==
    {<<>>} \cup {<<m>> : m \in FirstMatchers \cup InMatchers}
    \cup {<<a, b>> : a \in {mFunc, mFuncR, mFile, mStar}, b \in JoinMatchers \cup InMatchers}
    \cup {<<mCall, mIdentInA>>}

\* CallExpr { fun: SelectorExpr { x: Ident { name: "context" } sel: Ident { name: "WT" } } }
pWithTimeout == Pattern("CallExpr",
    F1("fun", Pattern("SelectorExpr", F2("x", IdentNamed(sContext), "sel", IdentNamed(sWithTimeout)))))
\* CallExpr { fun: $F }
pAnyCall == Pattern("CallExpr", F1("fun", Binding("F")))
\* Field { type: SelectorExpr { x: Ident { name: "context" } sel: Ident { name: "Ctx" } } }
pCtxField == Pattern("Field",
    F1("type", Pattern("SelectorExpr", F2("x", IdentNamed(sContext), "sel", IdentNamed(sCtxType)))))

Wheres ==
    { <<<<MemberPred("S", <<Q(sGet), Q(sPost)>>)>>>>,
      <<<<Not(ContainsPred("B", pWithTimeout))>>>>,
      <<<<ContainsPred("B", pAnyCall), PropertyPred("N", "exported")>>>>,
      <<<<LenPred("P", ">", 0)>>, <<Not(ContainsPred("B", pWithTimeout))>>>>,
      <<<<LenPred("R", "==", 0)>>>>,
      <<<<Not(Not(ContainsPred("B", pAnyCall)))>>>>,
      <<<<Not(LenPred("R", ">", 0))>>>> }

WhereFroms == {<<mFunc>>, <<mFunc, mCallInB>>, <<mFuncR>>}

MatchRules ==
    {LiftBlock(f, <<>>, <<>>) : f \in Froms}
    \cup {LiftBlock(f, w, <<>>) : f \in WhereFroms, w \in Wheres}

sCancelCall == <<"c","a","n","c","e","l","(",")">>
sCtxWT == sContextDot \o sWithTimeout \o <<"(",")">>
sTimeNow == sTimeDot \o <<"N","o","w","(",")">>
sCtxParam == <<"c","t","x"," ">> \o sContextDot \o sCtxType
sOutFile == <<"o","u","t",".","g","o">>

\* insert code { prepend $B `context.WT()\ncancel()` }
aPrepend == InsertClause("code", InsertPos("prepend", "B"),
                CodeBlock(Raw(sCtxWT \o <<"\n">> \o sCancelCall)))
\* insert code { append $B `time.Now()` }
aAppend == InsertClause("code", InsertPos("append", "B"), CodeBlock(Raw(sTimeNow)))
\* insert code { prepend $B `${N}()` }
aPrependN == InsertClause("code", InsertPos("prepend", "B"),
                CodeBlock(Raw(<<"$","{","N","}","(",")">>)))
\* insert code { prepend $P `cancel()` }
aPrependP == InsertClause("code", InsertPos("prepend", "P"), CodeBlock(Raw(sCancelCall)))
\* insert code { prepend $R `cancel()` }
aPrependR == InsertClause("code", InsertPos("prepend", "R"), CodeBlock(Raw(sCancelCall)))
\* insert code { prepend $B `cancel(` }
aPrependBad == InsertClause("code", InsertPos("prepend", "B"),
                CodeBlock(Raw(<<"c","a","n","c","e","l","(">>)))
\* insert code { after $B `cancel()` }
aAfter == InsertClause("code", InsertPos("after", "B"), CodeBlock(Raw(sCancelCall)))
\* insert code { before $B `cancel()` }
aBefore == InsertClause("code", InsertPos("before", "B"), CodeBlock(Raw(sCancelCall)))
\* insert code { into $B `cancel()` }
aInto == InsertClause("code", InsertPos("into", "B"), CodeBlock(Raw(sCancelCall)))
\* insert ast { prepend $B }
aInsertAst == InsertClause("ast", InsertPos("prepend", "B"), None)
\* patch { set $P.first = "ctx context.Ctx" }
aSet == PatchClause(<<SetStmt(FieldPath("P", <<"first">>), ExprString(Q(sCtxParam)))>>)
\* patch { set $R.first = "e error" }
aSetR == PatchClause(<<SetStmt(FieldPath("R", <<"first">>),
                               ExprString(Q(<<"e"," ">> \o sError)))>>)
\* patch { set $P.last = "ctx context.Ctx" }
aSetLast == PatchClause(<<SetStmt(FieldPath("P", <<"last">>), ExprString(Q(sCtxParam)))>>)
\* patch { set $P.first.type = "ctx context.Ctx" }
aSetDeep == PatchClause(<<SetStmt(FieldPath("P", <<"first", "type">>), ExprString(Q(sCtxParam)))>>)
\* patch { set $B.first = "ctx context.Ctx" }
aSetB == PatchClause(<<SetStmt(FieldPath("B", <<"first">>), ExprString(Q(sCtxParam)))>>)
\* patch { rename $N "Z" }
aRename == PatchClause(<<RenameStmt("N", Q(<<"Z">>))>>)
\* patch { rename $B "Z" }
aRenameB == PatchClause(<<RenameStmt("B", Q(<<"Z">>))>>)
\* patch { rename $R "Z" }
aRenameR == PatchClause(<<RenameStmt("R", Q(<<"Z">>))>>)
\* patch { if not contains($P, Field {...context.Ctx}) { set $P.first = "ctx context.Ctx" } rename $N "Z" }
aGuardedSet == PatchClause(<<
    ConditionalPatch(Not(ContainsPred("P", pCtxField)),
        <<SetStmt(FieldPath("P", <<"first">>), ExprString(Q(sCtxParam)))>>),
    RenameStmt("N", Q(<<"Z">>)) >>)
\* patch { if len($P) >= 0 { if len($P) >= 0 { rename $N "Z" } } }
aNestedIf == PatchClause(<<
    ConditionalPatch(LenPred("P", ">=", 0),
        <<ConditionalPatch(LenPred("P", ">=", 0), <<RenameStmt("N", Q(<<"Z">>))>>)>>) >>)
\* patch { rename $N "${N}" }
aRenameHole == PatchClause(<<RenameStmt("N", Q(<<"$","{","N","}">>))>>)
\* patch { set $P.first = "t time.Time" }
aSetTime == PatchClause(<<SetStmt(FieldPath("P", <<"first">>),
                ExprString(Q(<<"t"," ">> \o sTimeDot \o <<"T","i","m","e">>)))>>)
\* patch { retype $N "int" }
aRetype == PatchClause(<<RetypeStmt("N", Q(<<"i","n","t">>))>>)
\* delete { }
aDelete == DeleteClause(<<>>)
\* emit go { file "out.go" template { `func ${N}` } }
aEmitTpl == EmitClause(Q(sOutFile), <<>>,
                TplEmitBlock(Raw(<<"f","u","n","c"," ","$","{","N","}">>)))
\* emit go { file "out.go" package q code { `var ${Zz}` } }
aEmitCode == EmitClause(Q(sOutFile), <<"q">>,
                CodeEmitBlock(Raw(<<"v","a","r"," ","$","{","Z","z","}">>)))
\* emit go { file "out.go" ast { ... } }
aEmitAst == EmitClause(Q(sOutFile), <<>>, ASTEmitBlock)

Actions ==
    {aPrepend, aAppend, aPrependN, aPrependP, aPrependR, aPrependBad, aAfter, aBefore, aInto,
     aInsertAst,
     aSet, aSetR, aSetLast, aSetDeep, aSetB, aSetTime, aRename, aRenameB, aRenameR,
     aGuardedSet, aNestedIf, aRetype,
     aDelete, aEmitTpl, aEmitCode, aEmitAst}

ActionSeqs ==
    {<<a>> : a \in Actions}
    \cup {<<a, b>> : a \in {aPrepend, aSet, aRename}, b \in {aAppend, aPrependN, aGuardedSet, aEmitTpl}}
    \cup {<<aRenameHole, aEmitTpl>>, <<aEmitTpl, aEmitCode>>}

ExecFroms == {<<mFunc>>, <<mFunc, mCallInB>>}

ExecRules == {LiftBlock(f, <<>>, as) : f \in ExecFroms, as \in ActionSeqs}

\* rules whose $R is nil for a function without results
NilRules == {LiftBlock(<<mFuncR>>, <<>>, <<a>>) : a \in {aRenameR}}

\* rules whose matches share the parameter list of a function
SharedRules == {LiftBlock(<<mFunc, mCall>>, <<>>, <<aGuardedSet>>)}

Programs ==
    {<<r>> : r \in MatchRules \cup ExecRules \cup NilRules \cup SharedRules}
    \cup {<<LiftBlock(<<mFunc>>, <<>>, <<a>>), LiftBlock(<<mFunc, mCallInB>>, <<>>, <<aRename>>)>> :
            a \in {aPrepend, aDelete}}

(***************************************************************************)
(* The parser of a lift block (package grammar), on the clauses that stand *)
(* between `lift "name" {` and `}`.  A clause is read as a whole; the      *)
(* parser state is the clauses, the position and what has been taken.      *)
(***************************************************************************)
FromTok(matchers) == [k |-> "from", body |-> matchers]
WhereTok(preds) == [k |-> "where", body |-> preds]
ActionTok(a) == [k |-> "action", body |-> a]

Parser(input, pos, st, from, where, actions) ==
    [input |-> input, pos |-> pos, st |-> st, from |-> from, where |-> where,
     actions |-> actions]

\* the parser outside a parse
ParserDone == Parser(<<>>, 1, "idle", <<>>, <<>>, <<>>)

\* the clause at the parser's position, "}" past the last one
NextTok == IF parser.pos <= Len(parser.input) THEN parser.input[parser.pos].k ELSE "}"

ParseStep(st, from, where, actions) ==
    /\ parser' = Parser(parser.input, parser.pos + 1, st, from, where, actions)
    /\ UNCHANGED <<heap, prog, bi, pc, mk, matches, ai, mi, imports, applied,
                   emitted, lastResult, err, trace>>

\* From *FromClause `@@`: the first clause is a from-clause
ParseFrom ==
    /\ pc = "parse" /\ parser.st = "from" /\ NextTok = "from"
    /\ ParseStep("where", <<parser.input[parser.pos]>>, <<>>, <<>>)

\* as ParseWhere, but a where-clause is also taken after an action
ParseWhereAnywhere ==
    /\ pc = "parse" /\ parser.st \in {"where", "actions"} /\ NextTok = "where"
    /\ ParseStep(parser.st, parser.from, Append(parser.where, parser.input[parser.pos]),
                 parser.actions)

\* Where []*WhereClause `@@*`: where-clauses as long as one follows
ParseWhere ==
    /\ pc = "parse" /\ parser.st = "where" /\ NextTok = "where"
    /\ ParseStep("where", parser.from, Append(parser.where, parser.input[parser.pos]),
                 parser.actions)

\* Actions []*Action `@@*`: actions as long as one follows, the
\* where-clauses being over
ParseAction ==
    /\ pc = "parse" /\ parser.st \in {"where", "actions"} /\ NextTok = "action"
    /\ ParseStep("actions", parser.from, parser.where,
                 Append(parser.actions, parser.input[parser.pos]))

\* "}" closes the block: the block is added to Program.Blocks
ParseClose ==
    /\ pc = "parse" /\ parser.st \in {"where", "actions"} /\ NextTok = "}"
    /\ parser' = Parser(parser.input, parser.pos + 1, "accepted", parser.from,
                        parser.where, parser.actions)
    /\ prog' = Append(prog, LiftBlock(parser.from[1].body,
                                      [i \in DOMAIN parser.where |-> parser.where[i].body],
                                      [i \in DOMAIN parser.actions |-> parser.actions[i].body]))
    /\ UNCHANGED <<heap, bi, pc, mk, matches, ai, mi, imports, applied,
                   emitted, lastResult, err, trace>>

\* anything else where the from-clause or "}" is expected is a parse error
ParseReject ==
    /\ pc = "parse"
    /\ \/ parser.st = "from" /\ NextTok # "from"
       \/ parser.st = "where" /\ NextTok = "from"
       \/ parser.st = "actions" /\ NextTok \in {"from", "where"}
    /\ err' = "unexpected token"
    /\ parser' = Parser(parser.input, parser.pos, "rejected", parser.from, parser.where,
                        parser.actions)
    /\ UNCHANGED <<heap, prog, bi, pc, mk, matches, ai, mi, imports, applied,
                   emitted, lastResult, trace>>

ParseNext ==
    \/ ParseFrom
    \/ ParseWhere
    \/ ParseAction
    \/ ParseClose
    \/ ParseReject

\* the clauses the parses are started with
MaxClauses == 4

ClauseToks ==
    {FromTok(<<mFunc>>), FromTok(<<mFunc, mCallInB>>),
     WhereTok(<<LenPred("P", ">", 0)>>), WhereTok(<<Not(ContainsPred("B", pWithTimeout))>>),
     ActionTok(aPrepend), ActionTok(aRename)}

ClauseSeqs == UNION {[1..n -> ClauseToks] : n \in 0..MaxClauses}

ParseInit ==
    /\ heap = MkFile(<<>>)
    /\ prog = <<>>
    /\ bi = 1
    /\ pc = "parse"
    /\ mk = 0
    /\ matches = <<>>
    /\ ai = 1
    /\ mi = 1
    /\ imports = {}
    /\ applied = <<>>
    /\ emitted = NoBindings
    /\ lastResult = NoResult
    /\ err = ""
    /\ trace = <<>>
    /\ \E input \in ClauseSeqs : parser = Parser(input, 1, "from", <<>>, <<>>, <<>>)

Init ==
    /\ heap \in SourceFiles
    /\ prog \in Programs
    /\ bi = 1
    /\ pc = "match"
    /\ mk = 0
    /\ matches = <<>>
    /\ ai = 1
    /\ mi = 1
    /\ imports = {}
    /\ applied = <<>>
    /\ emitted = NoBindings
    /\ lastResult = NoResult
    /\ err = ""
    /\ trace = <<>>
    /\ parser = ParserDone

(***************************************************************************)
(* The tree as a relation: what the properties below are stated over.      *)
(***************************************************************************)
ChildSet(h, n) == {Children(h, n)[i] : i \in DOMAIN Children(h, n)}

\* the nodes of the subtree rooted at n, n included
RECURSIVE Subtree(_, _)
Subtree(h, n) == {n} \cup UNION {Subtree(h, c) : c \in ChildSet(h, n)}

\* the subtree of every node
TreeOf(h) == [n \in DOMAIN h |-> Subtree(h, n)]

\* a comes before b in pre-order, T being TreeOf(h): a is a proper
\* ancestor of b, or a lies under an earlier child of a common ancestor
Precedes(h, T, a, b) ==
    /\ a # b
    /\ \/ b \in T[a]
       \/ \E p \in DOMAIN h :
            \E i, j \in DOMAIN Children(h, p) :
                /\ i < j
                /\ a \in T[Children(h, p)[i]]
                /\ b \in T[Children(h, p)[j]]

\* the nodes of S that have the matcher's kind and whose fields unify
Qualifying(h, stmt, S, inherited) ==
    {n \in S : h[n].kind = stmt.nodeType /\ matchFields(h, n, stmt.fields, inherited).ok}

\* for every node of S, the number of nodes of S that come before it
RankIn(h, T, S) == [n \in S |-> Cardinality({m \in S : Precedes(h, T, m, n)})]

BySlot(S, rank) == [i \in 1..Cardinality(S) |-> CHOOSE n \in S : rank[n] = i - 1]

\* the set S laid out in pre-order
PreOrdered(h, S) == BySlot(S, RankIn(h, TreeOf(h), S))

MatchesOf(h, stmt, ord, inherited) ==
    [i \in DOMAIN ord |-> Match(ord[i], matchFields(h, ord[i], stmt.fields, inherited).b)]

\* one match per qualifying node of the subtree under root, in pre-order
ExpectedMatches(h, stmt, root, inherited) ==
    MatchesOf(h, stmt,
              PreOrdered(h, Qualifying(h, stmt, Subtree(h, root), inherited)),
              inherited)

SingleMatcherDone ==
    pc = "filter" /\ Len(block.from) = 1 /\ block.from[1].in = NoIn

\* C1: for a from-clause with a single matcher of type T without `in`,
\* MatchBlock returns exactly one match for each node of the file's tree
\* whose kind is T and whose fields unify, nested nodes included, in
\* pre-order, and no match for any other node.
C1_SingleMatcherPreOrder ==
    SingleMatcherDone =>
        matches = ExpectedMatches(heap, block.from[1], FileRoot, NoBindings)

\* a match nested inside an earlier match's node has been reported
C1_Witness ==
    /\ SingleMatcherDone
    /\ \E i, j \in DOMAIN matches :
        /\ i < j
        /\ matches[j].node \in Subtree(heap, matches[i].node) \ {matches[i].node}

InDone ==
    pc = "filter" /\ mk = 2 /\ block.from[2].in # NoIn

HasScope(stmt, m) ==
    stmt.in \in DOMAIN m.bindings /\ m.bindings[stmt.in].t = "node"

RECURSIVE ExpectedIn(_, _, _, _)
ExpectedIn(h, stmt, ms, i) ==
    IF i > Len(ms) THEN <<>>
    ELSE (IF HasScope(stmt, ms[i])
          THEN ExpectedMatches(h, stmt, ms[i].bindings[stmt.in].id, ms[i].bindings)
          ELSE <<>>)
         \o ExpectedIn(h, stmt, ms, i + 1)

\* the new matches are the qualifying nodes under each accumulated
\* match's node X, match by match; a match without a node X gives none
ScopedTo(stmt, acc) == matches = ExpectedIn(heap, stmt, acc, 1)

\* every new match comes from an accumulated match and holds its bindings
InheritsFrom(stmt, acc) ==
    \A k \in DOMAIN matches :
        \E i \in DOMAIN acc :
            /\ HasScope(stmt, acc[i])
            /\ matches[k].node \in Subtree(heap, acc[i].bindings[stmt.in].id)
            /\ \A name \in DOMAIN acc[i].bindings :
                /\ name \in DOMAIN matches[k].bindings
                /\ matches[k].bindings[name] = acc[i].bindings[name]

\* C2: a matcher with `in $X` is evaluated once per accumulated match m:
\* when m's X is a tree node, m contributes one new match per node of the
\* matcher's type in the subtree under that node whose fields unify, each
\* holding all of m's bindings plus the local captures; when X is unbound,
\* nil or not a node, m contributes nothing.
C2_InScopedMatcher ==
    InDone =>
        /\ ScopedTo(block.from[2], matchStmt(heap, block.from[1], FileRoot, NoBindings))
        /\ InheritsFrom(block.from[2], matchStmt(heap, block.from[1], FileRoot, NoBindings))

JoinDone ==
    pc = "filter" /\ mk = 2 /\ block.from[2].in = NoIn

\* the pairs (a, b) in a-major order, each with a's node and the union of
\* the two binding maps, b's value on a shared name
CrossProduct(A, B) ==
    [k \in 1..(Len(A) * Len(B)) |->
        LET a == A[((k - 1) \div Len(B)) + 1]
            b == B[((k - 1) % Len(B)) + 1]
        IN Match(a.node,
                 [n \in DOMAIN a.bindings \cup DOMAIN b.bindings |->
                    IF n \in DOMAIN b.bindings THEN b.bindings[n] ELSE a.bindings[n]])]

\* C3: for a later matcher without `in`, with A the accumulated matches and
\* B that matcher's matches against the whole file, the new match set is
\* the full cross-join: |A|*|B| matches, one per pair, hence none when A
\* or B is empty, each with both binding maps merged, B winning.
C3_CrossJoinProduct ==
    JoinDone =>
        matches = CrossProduct(matchStmt(heap, block.from[1], FileRoot, NoBindings),
                               matchStmt(heap, block.from[2], FileRoot, NoBindings))

\* the last matcher that ran reports the node it unified with
SelfScoped ==
    /\ pc \in {"match", "filter"} /\ mk >= 1
    /\ mk = 1 \/ block.from[mk].in # NoIn

\* C4: a simple binding $X unified while X is already bound succeeds only
\* with an equal value, and the earlier value is never overwritten: in a
\* reported match, X is the value of every field a `$X` stands at.
C4_RepeatedBindingEqual ==
    SelfScoped =>
        \A i \in DOMAIN matches :
            \A f \in DOMAIN block.from[mk].fields :
                LET fm == block.from[mk].fields[f]
                IN fm.value.k = "binding" =>
                    /\ fm.value.name \in DOMAIN matches[i].bindings
                    /\ matches[i].bindings[fm.value.name]
                         = getField(heap, matches[i].node, fm.name)

RECURSIVE NamesOfPattern(_)
RECURSIVE NamesOfFields(_)
NamesOfPattern(p) ==
    CASE p.k \in {"binding", "spread"} -> {p.name}
      [] p.k = "pattern" -> NamesOfFields(p.fields)
      [] p.k = "list" -> UNION {NamesOfPattern(p.items[i]) : i \in DOMAIN p.items}
      [] OTHER -> {}

NamesOfFields(fields) ==
    UNION {NamesOfPattern(fields[i].value) : i \in DOMAIN fields}

NamesOfFrom(from) == UNION {NamesOfFields(from[i].fields) : i \in DOMAIN from}

\* C5: in every match MatchBlock returns, every binding name ($X or $X...)
\* of the block's matchers is a key of the bindings map, also when the
\* bound field is absent or a nil pointer.
C5_AllNamesBound ==
    pc = "filter" =>
        \A i \in DOMAIN matches :
            NamesOfFrom(block.from) \subseteq DOMAIN matches[i].bindings

AllPredicatesTrue(m) ==
    \A w \in DOMAIN block.where :
        \A p \in DOMAIN block.where[w] :
            EvalPredicate(heap, block.where[w][p], m.bindings)

\* C6: FilterMatches returns exactly the input matches, in their original
\* order, on whose bindings every predicate of every where-clause is true;
\* without where-clauses it returns them all, and one false predicate
\* anywhere removes the match.
C6_FilterExact ==
    [][pc = "filter" =>
        /\ matches' = SelectSeq(matches, AllPredicatesTrue)
        /\ block.where = <<>> => matches' = matches
        /\ \A i \in DOMAIN matches :
            (\E w \in DOMAIN block.where : \E p \in DOMAIN block.where[w] :
                ~EvalPredicate(heap, block.where[w][p], matches[i].bindings))
            => \A k \in DOMAIN matches' : matches'[k] # matches[i]
      ]_vars

\* the filter of a block with two where-clauses has kept some of the
\* matches of the block's matcher and removed others
C6_Witness ==
    /\ pc = "imports" /\ block.actions = <<>>
    /\ block.from = <<mFunc>> /\ Len(block.where) = 2
    /\ Len(matches) > 0
    /\ Len(matches) < Len(matchStmt(heap, mFunc, FileRoot, NoBindings))

RECURSIVE StripNot(_)
StripNot(p) == IF p.k = "not" THEN StripNot(p.p) ELSE p

ContainsPredsOf(where) ==
    UNION {{StripNot(where[w][p]) : p \in DOMAIN where[w]} : w \in DOMAIN where}

\* C7: contains($X, P) is true iff some node of the subtree under the node
\* bound to X, the root included, has P's kind and unifies with P's
\* fields; the probe uses a fresh bindings map, so the bindings of the
\* match are the same after the evaluation, also when P has binding names.
C7_ContainsSubtree ==
    [][pc = "filter" =>
        /\ \A i \in DOMAIN matches :
            \A c \in {q \in ContainsPredsOf(block.where) : q.k = "contains"} :
                (c.binding \in DOMAIN matches[i].bindings
                 /\ matches[i].bindings[c.binding].t = "node")
                => (evalContains(heap, c, matches[i].bindings)
                    <=> \E n \in Subtree(heap, matches[i].bindings[c.binding].id) :
                            /\ heap[n].kind = c.pattern.nodeType
                            /\ matchFields(heap, n, c.pattern.fields, NoBindings).ok)
        /\ \A k \in DOMAIN matches' : \E i \in DOMAIN matches : matches'[k] = matches[i]
      ]_vars

\* a match has passed contains($B, CallExpr { fun: $F }), and F is no key
\* of its bindings
C7_Witness ==
    /\ pc = "imports" /\ block.actions = <<>>
    /\ Len(block.where) = 1 /\ block.where[1][1] = ContainsPred("B", pAnyCall)
    /\ Len(matches) > 0
    /\ \A i \in DOMAIN matches : "F" \notin DOMAIN matches[i].bindings

\* the number of matches whose $B is the block of match i
SharingBody(i) ==
    Cardinality({j \in DOMAIN matches : matches[j].bindings["B"] = matches[i].bindings["B"]})

\* C8: Execute runs action-major: action i is applied to every match, in
\* match order, before action i+1 is applied to any match; the tree is
\* mutated in that sequence, later steps working on the tree the earlier
\* steps left.
C8_ActionMajorOrder ==
    (pc \in {"exec", "imports"} /\ Len(block.actions) > 0) =>
        /\ \A k \in DOMAIN trace :
            trace[k] = <<((k - 1) \div Len(matches)) + 1, ((k - 1) % Len(matches)) + 1>>
        /\ pc = "exec" => Len(trace) = (ai - 1) * Len(matches) + (mi - 1)
        /\ pc = "imports" => Len(trace) = Len(block.actions) * Len(matches)
        /\ (pc = "imports" /\ block.actions = <<aPrepend, aPrependN>>) =>
            \A i \in DOMAIN matches :
                \A q \in 1..SharingBody(i) :
                    LET stmt == heap[matches[i].bindings["B"].id].f.List.ids[q]
                    IN heap[heap[heap[stmt].f.X.id].f.Fun.id].kind = "Ident"

\* two actions have run over two matches that share one block
C8_Witness ==
    /\ pc = "imports" /\ block.actions = <<aPrepend, aPrependN>>
    /\ Len(trace) = 4
    /\ SharingBody(1) = 2

\* the source text of an expression that is a name or a qualified name
ExprText(h, e) ==
    CASE h[e].kind = "Ident" -> h[e].f.Name.s
      [] h[e].kind = "SelectorExpr" ->
            h[h[e].f.X.id].f.Name.s \o <<".">> \o h[h[e].f.Sel.id].f.Name.s
      [] OTHER -> <<>>

\* the source text of a statement that is a call without arguments
StmtText(h, s) ==
    IF h[s].kind = "ExprStmt" /\ h[h[s].f.X.id].kind = "CallExpr"
    THEN ExprText(h, h[h[s].f.X.id].f.Fun.id) \o <<"(", ")">>
    ELSE <<>>

InsertStep ==
    /\ pc = "exec" /\ block.actions[ai].k = "insert"
    /\ block.actions[ai].mode = "code" /\ block.actions[ai].code # None

TargetIs(kind, name) ==
    /\ name \in DOMAIN matches[mi].bindings
    /\ matches[mi].bindings[name].t = "node"
    /\ heap[matches[mi].bindings[name].id].kind = kind

\* the text of the payload, statement by statement
PayloadLines ==
    TrimLines(Split(interpolate(heap, Trim(block.actions[ai].code.text, BACKTICK),
                                matches[mi].bindings), <<"\n">>))

StepFailed(kind) == applied' = applied /\ err' # "" /\ pc' # "exec"
StepDone(kind) == applied' = Append(applied, <<kind>>) /\ err' = err

\* the statements p of the payload stand at positions from+1.. of list new
PayloadAt(new, from, p) ==
    \A j \in DOMAIN p : StmtText(heap', new[from + j]) = p[j]

\* the nodes the tree had, node t aside, are as they were
OthersKept(t) ==
    \A n \in DOMAIN heap : n # t => heap'[n] = heap[n]

\* C9: insert code with position prepend, on a block holding s1..sn and a
\* payload parsing to p1..pk, leaves p1..pk,s1..sn; with append it leaves
\* s1..sn,p1..pk; the old statements are never dropped, duplicated or
\* reordered; a target that is no block node makes the insert fail with
\* an error, the tree unchanged.
C9_InsertPlacement ==
    [][InsertStep =>
        /\ ~TargetIs("BlockStmt", block.actions[ai].position.binding)
            => StepFailed("insert") /\ heap' = heap
        /\ (/\ TargetIs("BlockStmt", block.actions[ai].position.binding)
            /\ block.actions[ai].position.kind \in {"prepend", "append"}
            /\ parseStatements(interpolate(heap, Trim(block.actions[ai].code.text, BACKTICK),
                                           matches[mi].bindings)).ok)
            => LET t == matches[mi].bindings[block.actions[ai].position.binding].id
                   old == heap[t].f.List.ids
                   new == heap'[t].f.List.ids
                   p == PayloadLines
               IN /\ StepDone("insert")
                  /\ Len(new) = Len(p) + Len(old)
                  /\ OthersKept(t)
                  /\ \A n \in DOMAIN p \cup DOMAIN old :
                        Cardinality({q \in DOMAIN new : new[q] = new[n]}) = 1
                  /\ block.actions[ai].position.kind = "prepend"
                        => /\ SubSeq(new, Len(p) + 1, Len(new)) = old
                           /\ PayloadAt(new, 0, p)
                  /\ block.actions[ai].position.kind = "append"
                        => /\ SubSeq(new, 1, Len(old)) = old
                           /\ PayloadAt(new, Len(old), p)
      ]_vars

\* a payload of two statements has been prepended to a block that held
\* statements
C9_Witness ==
    /\ pc \in {"exec", "imports"} /\ block.actions = <<aPrepend>>
    /\ applied # <<>>
    /\ \E i \in DOMAIN matches :
        LET l == heap[matches[i].bindings["B"].id].f.List.ids
        IN /\ Len(l) > 2
           /\ StmtText(heap, l[1]) = sCtxWT
           /\ StmtText(heap, l[2]) = sCancelCall

SetStep ==
    /\ pc = "exec" /\ block.actions[ai].k = "patch"
    /\ Len(block.actions[ai].stmts) = 1
    /\ block.actions[ai].stmts[1].k = "set"
    /\ block.actions[ai].stmts[1].value.k = "string"

FirstSpace(s) == CHOOSE i \in DOMAIN s : s[i] = " " /\ \A j \in 1..(i - 1) : s[j] # " "

\* C10: set $X.first = "name type" on a field list of length n yields a
\* list of length n+1 whose first element is the new field (name, type),
\* the old fields following in their old order; a set whose path is not
\* the single segment `first`, or whose target is no field list, fails
\* with an error and leaves the list unchanged.
C10_SetFirstPrepends ==
    [][SetStep =>
        LET set == block.actions[ai].stmts[1]
            txt == SubSeq(set.value.s, 2, Len(set.value.s) - 1)
        IN /\ (set.path.segments # <<"first">> \/ ~TargetIs("FieldList", set.path.binding))
                => StepFailed("patch") /\ heap' = heap
           /\ (set.path.segments = <<"first">> /\ TargetIs("FieldList", set.path.binding))
                => LET t == matches[mi].bindings[set.path.binding].id
                       old == heap[t].f.List.ids
                       new == heap'[t].f.List.ids
                   IN /\ StepDone("patch")
                      /\ Len(new) = Len(old) + 1
                      /\ Tail(new) = old
                      /\ Head(new) \notin DOMAIN heap
                      /\ heap'[Head(new)].kind = "Field"
                      /\ Len(heap'[Head(new)].f.Names.ids) = 1
                      /\ heap'[heap'[Head(new)].f.Names.ids[1]].f.Name.s
                            = SubSeq(txt, 1, FirstSpace(txt) - 1)
                      /\ ExprText(heap', heap'[Head(new)].f.Type.id)
                            = SubSeq(txt, FirstSpace(txt) + 1, Len(txt))
                      /\ OthersKept(t)
      ]_vars

\* a field has been put in front of a field list that held a field
C10_Witness ==
    /\ pc \in {"exec", "imports"} /\ block.actions = <<aSet>>
    /\ applied # <<>>
    /\ \E i \in DOMAIN matches :
        LET l == heap[matches[i].bindings["P"].id].f.List.ids
        IN /\ Len(l) = 2
           /\ l[1] > l[2]
           /\ ExprText(heap, heap[l[1]].f.Type.id) = sContextDot \o sCtxType

RenameStep ==
    /\ pc = "exec" /\ block.actions[ai].k = "patch"
    /\ Len(block.actions[ai].stmts) = 1
    /\ block.actions[ai].stmts[1].k = "rename"

\* the identifier nodes of h that have the name s
IdentsNamed(h, s) == {n \in DOMAIN h : h[n].kind = "Ident" /\ h[n].f.Name.s = s}

\* C11: rename $X "S" sets the name of exactly the identifier node bound
\* to X to S, quotes stripped; every other node, other identifiers of the
\* old name included, is as before.  With X bound to no identifier, or to
\* nil, or unbound, the rename fails with an error and no node changes.
C11_RenameLocal ==
    [][RenameStep =>
        LET ren == block.actions[ai].stmts[1]
        IN /\ ~TargetIs("Ident", ren.binding) => StepFailed("patch") /\ heap' = heap
           /\ TargetIs("Ident", ren.binding) =>
                /\ StepDone("patch")
                /\ DOMAIN heap' = DOMAIN heap
                /\ heap'[matches[mi].bindings[ren.binding].id]
                     = N("Ident", [Name |-> St(SubSeq(ren.newName, 2, Len(ren.newName) - 1))])
                /\ OthersKept(matches[mi].bindings[ren.binding].id)
      ]_vars

\* a function's name has been changed while another identifier of the old
\* name is left in the tree
C11_Witness ==
    /\ pc \in {"exec", "imports"} /\ block.actions = <<aRename>>
    /\ applied # <<>>
    /\ \E i \in DOMAIN matches :
        /\ heap[matches[i].bindings["N"].id].f.Name.s = <<"Z">>
        /\ \E j \in DOMAIN matches :
              heap[matches[j].bindings["N"].id].f.Name.s = <<"F">>
        /\ Cardinality(IdentsNamed(heap, <<"F">>)) = 1
        /\ Cardinality(IdentsNamed(heap, <<"Z">>)) = 1

CondStep ==
    /\ pc = "exec" /\ block.actions[ai].k = "patch"
    /\ \E i \in DOMAIN block.actions[ai].stmts : block.actions[ai].stmts[i].k = "if"

\* what a list of patch statements means: each statement in its written
\* order, a conditional standing for its nested statements when its
\* predicate is true on the bindings and for nothing when it is false;
\* the first error ends the list
RECURSIVE PatchMeaning(_, _, _, _)
PatchMeaning(stmts, b, h, imp) ==
    IF stmts = <<>> THEN Ok(h, imp)
    ELSE IF Head(stmts).k = "if"
    THEN IF EvalPredicate(h, Head(stmts).condition, b)
         THEN PatchMeaning(Head(stmts).stmts \o Tail(stmts), b, h, imp)
         ELSE PatchMeaning(Tail(stmts), b, h, imp)
    ELSE IF executePatchStmt(Head(stmts), b, h, imp).err # ""
    THEN executePatchStmt(Head(stmts), b, h, imp)
    ELSE PatchMeaning(Tail(stmts), b,
                      executePatchStmt(Head(stmts), b, h, imp).h,
                      executePatchStmt(Head(stmts), b, h, imp).imports)

\* C12: a conditional patch `if P { stmts }` applies its nested
\* statements, in their written order, iff P is true on the match's
\* bindings; when P is false it changes neither the tree nor the imports
\* to add, raises no error, and the statements after it in the same patch
\* are still executed.
C12_ConditionalPatch ==
    [][CondStep =>
        /\ heap' = PatchMeaning(block.actions[ai].stmts, matches[mi].bindings,
                                heap, imports).h
        /\ imports' = PatchMeaning(block.actions[ai].stmts, matches[mi].bindings,
                                   heap, imports).imports
        /\ IF PatchMeaning(block.actions[ai].stmts, matches[mi].bindings,
                           heap, imports).err = ""
           THEN StepDone("patch") ELSE StepFailed("patch")
      ]_vars

\* the import declarations among the file's top-level declarations
ImportDeclsOf(h) ==
    {d \in {h[FileRoot].f.Decls.ids[i] : i \in DOMAIN h[FileRoot].f.Decls.ids} :
        h[d].kind = "GenDecl" /\ h[d].f.Tok = Tok("import")}

\* the import specs of the file
ImportSpecsOf(h) ==
    UNION {{h[d].f.Specs.ids[i] : i \in DOMAIN h[d].f.Specs.ids} : d \in ImportDeclsOf(h)}

\* the import path of spec s, without its quotes
PathOf(h, s) ==
    SubSeq(h[h[s].f.Path.id].f.Value.s, 2, Len(h[h[s].f.Path.id].f.Value.s) - 1)

ImportedBy(h) == {PathOf(h, s) : s \in ImportSpecsOf(h)}

TimesImported(h, path) == Cardinality({s \in ImportSpecsOf(h) : PathOf(h, s) = path})

\* C13: after a successful Execute every package of the imports to add is
\* imported by the file; a package the file imported before, in any of its
\* import declarations, is not appended a second time; and when the file
\* had no import declaration, one is created as the first declaration.
C13_ImportsAdded ==
    [][pc = "imports" =>
        /\ \A p \in imports : p \in ImportedBy(heap')
        /\ \A p \in ImportedBy(heap) : TimesImported(heap', p) = TimesImported(heap, p)
        /\ (ImportDeclsOf(heap) = {} /\ imports # {}) =>
                Head(heap'[FileRoot].f.Decls.ids) \in ImportDeclsOf(heap')
      ]_vars

\* the orders in which a range over the set S can yield its elements
Orders(S) ==
    {o \in [1..Cardinality(S) -> S] : \A i, j \in DOMAIN o : i # j => o[i] # o[j]}

\* the import specs of the file, declaration by declaration
SpecLists(h) == [d \in ImportDeclsOf(h) |-> h[d].f.Specs.ids]

\* C14: the import step is idempotent: run a second time on the same
\* executor and tree with the same imports to add, it adds no import
\* spec; the import specs after the second run are those after the first.
C14_AddImportsIdempotent ==
    [][pc = "imports" =>
        \A again \in Orders(imports) :
            /\ SpecLists(addImports(heap', imports, again)) = SpecLists(heap')
            /\ Len(addImports(heap', imports, again)) = Len(heap')
      ]_vars

\* the import step has run with a package to add that the file did not
\* import, and the package is imported once
C14_Witness ==
    /\ pc = "done" /\ lastResult # NoResult
    /\ lastResult.source = heap
    /\ sContext \in imports /\ sTime \in imports
    /\ TimesImported(heap, sContext) = 1
    /\ TimesImported(heap, sTime) = 1

\* C15: a per-action error aborts only the failing action: the remaining
\* actions of the block and the remaining blocks are still processed, and
\* the modified source the run outputs holds every mutation applied to
\* the tree before the error.  So at the end of a run whose last block had
\* matches, every (action, match) step of that block has been taken and
\* the output is the tree as the steps left it.
C15_ErrorsAreLocal ==
    (pc = "done" /\ Len(matches) > 0 /\ Len(block.actions) > 0) =>
        /\ Len(trace) = Len(block.actions) * Len(matches)
        /\ lastResult # NoResult
        /\ lastResult.source = heap

\* the step's action is one the executor has no implementation for
Unsupported(a) ==
    \/ a.k = "delete"
    \/ a.k = "insert" /\ (a.mode = "ast" \/ a.position.kind \in {"after", "before", "into"})
    \/ a.k = "emit" /\ a.body.k = "ast"
    \/ a.k = "patch" /\ a.stmts # <<>> /\ Head(a.stmts).k = "retype"

\* Execute returned an error for the step / recorded the step as applied
Rejected == applied' = applied /\ err' # "" /\ pc' # "exec"
Dispatched == Len(applied') = Len(applied) + 1 /\ err' = err

\* C16: every action the parser accepts is either applied by the executor
\* or rejected with an explicit error: a step that is not rejected has
\* carried out what its action says (for a patch, all its statements,
\* conditionals included), and retype, delete, insert in ast mode, insert
\* at after/before/into and emit with an ast body are rejected with the
\* tree unchanged.
C16_AppliedOrRejected ==
    [][pc = "exec" =>
        /\ Rejected \/ Dispatched
        /\ Unsupported(block.actions[ai]) => Rejected /\ heap' = heap
        /\ (block.actions[ai].k = "patch" /\ ~Rejected) =>
              heap' = PatchMeaning(block.actions[ai].stmts, matches[mi].bindings,
                                   heap, imports).h
      ]_vars

\* the binding name the step's action looks up first, NoIn when it looks
\* up none
NameUsedBy(a) ==
    CASE a.k = "insert" /\ a.mode = "code" /\ a.code # None -> a.position.binding
      [] a.k = "patch" /\ a.stmts # <<>> /\ Head(a.stmts).k = "rename" -> Head(a.stmts).binding
      [] a.k = "patch" /\ a.stmts # <<>> /\ Head(a.stmts).k = "set" -> Head(a.stmts).path.binding
      [] OTHER -> NoIn

\* the names the block's predicates reference that match m does not bind
UnboundInWhere(m) ==
    UNION {{StripNot(block.where[w][p]).binding : p \in DOMAIN block.where[w]} :
            w \in DOMAIN block.where} \ DOMAIN m.bindings

\* rename, set and insert on an unbound name return "binding not found"
UnboundActionFails ==
    (pc = "exec" /\ NameUsedBy(block.actions[ai]) # NoIn
       /\ NameUsedBy(block.actions[ai]) \notin DOMAIN matches[mi].bindings) =>
        /\ Rejected
        /\ heap' = heap
        /\ err' = block.actions[ai].k \o " failed: binding $"
                    \o NameUsedBy(block.actions[ai]) \o " not found"

\* a predicate on an unbound name reports an error
UnboundPredicateFails ==
    (pc = "filter" /\ \E i \in DOMAIN matches : UnboundInWhere(matches[i]) # {}) =>
        \E i \in DOMAIN matches : \E x \in UnboundInWhere(matches[i]) :
            err' = "binding $" \o x \o " not found"

\* C17: an action or a predicate that references a binding name the
\* match's bindings do not contain produces a "binding not found" error
\* naming that binding: rename, set and insert return it, and a contains,
\* len, membership or property predicate reports it instead of evaluating
\* to a truth value.
C17_UnboundNameIsError ==
    [][UnboundActionFails /\ UnboundPredicateFails]_vars

\* text with its placeholders filled in, read from the left: a placeholder
\* at the front whose name is bound gives the stringified binding (with
\* its transform, if any), one whose name is not bound gives itself, any
\* other character gives itself; what was filled in is not read again
RECURSIVE Filled(_, _, _)
Filled(h, text, b) ==
    IF text = <<>> THEN <<>>
    ELSE IF reMatchAt(text, 1).len = 0 THEN <<Head(text)>> \o Filled(h, Tail(text), b)
    ELSE (IF KeyOf(reMatchAt(text, 1).name) \notin DOMAIN b
          THEN SubSeq(text, 1, reMatchAt(text, 1).len)
          ELSE IF reMatchAt(text, 1).transform = <<>>
          THEN bindingToString(h, b[KeyOf(reMatchAt(text, 1).name)])
          ELSE applyTransform(bindingToString(h, b[KeyOf(reMatchAt(text, 1).name)]),
                              reMatchAt(text, 1).transform))
         \o Filled(h, SubSeq(text, reMatchAt(text, 1).len + 1, Len(text)), b)

Unwrapped(s) == SubSeq(s, 2, Len(s) - 1)

EmitStep ==
    /\ pc = "exec" /\ block.actions[ai].k = "emit"
    /\ block.actions[ai].body.k \in {"template", "code"}

PackageLine(emit) ==
    IF emit.body.k = "code" /\ emit.package # <<>>
    THEN <<"p","a","c","k","a","g","e"," ">> \o emit.package \o <<"\n","\n">>
    ELSE <<>>

\* C18: an emit step stores, under the emit's file string without its
\* quotes, the body after one left-to-right, non-recursive interpolation
\* pass (a bound ${Name} becomes the stringified binding, an identifier
\* its name; an unbound ${Name} stays as written); a code body gets
\* `package <name>` and a blank line in front when the package is set, a
\* template body does not.
C18_EmitContent ==
    [][EmitStep =>
        /\ Dispatched
        /\ heap' = heap
        /\ emitted' = Bind(emitted, Unwrapped(block.actions[ai].file),
                           PackageLine(block.actions[ai])
                           \o Filled(heap, Unwrapped(block.actions[ai].body.text),
                                     matches[mi].bindings))
        /\ block.actions[ai] = aEmitTpl =>
              emitted'[sOutFile] = <<"f","u","n","c"," ">>
                    \o heap[matches[mi].bindings["N"].id].f.Name.s
        /\ block.actions[ai] = aEmitCode =>
              emitted'[sOutFile] = <<"p","a","c","k","a","g","e"," ","q","\n","\n",
                                     "v","a","r"," ","$","{","Z","z","}">>
      ]_vars

\* out.go was emitted for a function whose name had been set to the text
\* ${N}: the name filled in is not read as a placeholder again
C18_Witness ==
    /\ pc = "done" /\ lastResult # NoResult
    /\ sOutFile \in DOMAIN emitted
    /\ emitted[sOutFile] = <<"f","u","n","c"," ","$","{","N","}">>

\* the len predicates of the block's where-clauses, any `not` taken off
LenPredsOf(where) ==
    {p \in UNION {{StripNot(where[w][q]) : q \in DOMAIN where[w]} : w \in DOMAIN where} :
        p.k = "len"}

\* the number of elements of the container match m captured as x: the
\* entries of a field list or of a slice, 0 for a container that is nil,
\* whether nil is the value bound to x or the spread capture of a nil
\* field left x without a value
ElementCount(h, m, x) ==
    IF x \notin DOMAIN m.bindings THEN 0
    ELSE IF m.bindings[x].t = "list" THEN Cardinality(DOMAIN m.bindings[x].ids)
    ELSE IF m.bindings[x].t = "node" /\ h[m.bindings[x].id].kind = "FieldList"
    THEN Cardinality(DOMAIN h[m.bindings[x].id].f.List.ids)
    ELSE 0

Holds(n, op, k) ==
    \/ op = ">" /\ n > k
    \/ op = ">=" /\ n >= k
    \/ op = "<" /\ n < k
    \/ op = "<=" /\ n <= k
    \/ op = "==" /\ n = k
    \/ op = "!=" /\ n # k

\* C19: len($X) op n compares the element count of the container bound
\* to X with n under op; a container that is nil, such as the
\* spread-captured result list of a function without results, counts as
\* length 0, so that len($X) == 0 holds for it and len($X) > 0 does not.
C19_LenCounts ==
    (pc = "filter") =>
        \A i \in DOMAIN matches : \A p \in LenPredsOf(block.where) :
            p.binding \in NamesOfFrom(block.from) =>
                (evalLenCheck(heap, p, matches[i].bindings)
                    <=> Holds(ElementCount(heap, matches[i], p.binding), p.op, p.value))

\* the patterns the contains predicates of the rules use
ContainsPatterns == {pWithTimeout, pAnyCall, pCtxField}

\* for every node n of h, contains($X, pattern) with X bound to n
ContainsAt(h, pattern) ==
    [n \in DOMAIN h |->
        evalContains(h, ContainsPred("X", pattern), Bind(NoBindings, "X", Nd(n)))]

\* V being true at a node of a subtree makes it true at the subtree's
\* root, T being TreeOf(h)
Monotonic(h, T, V) == \A big \in DOMAIN h : \A s \in T[big] : V[s] => V[big]

\* C20: contains is monotonic in its scope: when contains($X, P) is true
\* with X bound to a subtree S, it is true with X bound to any subtree
\* that has S as a descendant or equals S.
C20_ContainsMonotonic ==
    (pc = "filter" /\ ContainsPredsOf(block.where) # {}) =>
        \A p \in ContainsPatterns : Monotonic(heap, TreeOf(heap), ContainsAt(heap, p))

\* the filter is about to evaluate contains($B, CallExpr { fun: $F }) on a
\* body B for which it is true, and it is also true for a node two or
\* more levels below B
C20_Witness ==
    /\ pc = "filter"
    /\ Len(block.where) = 1 /\ block.where[1][1] = ContainsPred("B", pAnyCall)
    /\ \E i \in DOMAIN matches :
        /\ "B" \in DOMAIN matches[i].bindings
        /\ evalContains(heap, block.where[1][1], matches[i].bindings)
        /\ \E s \in Subtree(heap, matches[i].bindings["B"].id) :
            /\ s \notin {matches[i].bindings["B"].id}
                        \cup ChildSet(heap, matches[i].bindings["B"].id)
            /\ ContainsAt(heap, pAnyCall)[s]

\* a predicate with none of its alternatives set
NoPredicate == [k |-> "none"]

\* the predicates of the block's where-clauses with the predicates under
\* their negations, a predicate on a name no rule binds and a predicate of
\* no kind
RECURSIVE WithInner(_)
WithInner(p) == IF p.k = "not" THEN {p} \cup WithInner(p.p) ELSE {p}

PredicatePool(where) ==
    UNION {UNION {WithInner(where[w][p]) : p \in DOMAIN where[w]} : w \in DOMAIN where}
    \cup {PropertyPred("Zz", "exported"), NoPredicate}

\* C21: for every predicate p and every bindings environment `not not p`
\* evaluates to the truth value of p and `not p` to the opposite one, also
\* when p references an unbound binding or is of a kind the evaluator does
\* not handle.
C21_DoubleNegation ==
    pc = "filter" =>
        \A i \in DOMAIN matches : \A p \in PredicatePool(block.where) :
            /\ EvalPredicate(heap, Not(Not(p)), matches[i].bindings)
                  <=> EvalPredicate(heap, p, matches[i].bindings)
            /\ EvalPredicate(heap, Not(p), matches[i].bindings)
                  <=> ~EvalPredicate(heap, p, matches[i].bindings)

\* the filter has kept, under `not not contains($B, CallExpr { fun: $F })`,
\* matches whose body holds a call
C21_Witness ==
    /\ pc = "imports" /\ block.where = <<<<Not(Not(ContainsPred("B", pAnyCall)))>>>>
    /\ Len(matches) > 0
    /\ \A i \in DOMAIN matches :
            evalContains(heap, ContainsPred("B", pAnyCall), matches[i].bindings)

\* the names the pattern captures with a spread binding
RECURSIVE SpreadsOfPattern(_)
RECURSIVE SpreadsOfFields(_)
SpreadsOfPattern(p) ==
    CASE p.k = "spread" -> {p.name}
      [] p.k = "pattern" -> SpreadsOfFields(p.fields)
      [] p.k = "list" -> UNION {SpreadsOfPattern(p.items[i]) : i \in DOMAIN p.items}
      [] OTHER -> {}

SpreadsOfFields(fields) ==
    UNION {SpreadsOfPattern(fields[i].value) : i \in DOMAIN fields}

\* a value that is nil, a slice or a field list
ListLike(h, v) ==
    \/ v.t \in {"nil", "list"}
    \/ v.t = "node" /\ h[v.id].kind = "FieldList"

\* C22: a spread binding $X... unifies only with a field whose value is
\* list-like or nil: against a present field holding a single node, an
\* identifier or a string the unification fails, so that no match binds X
\* to a value that is not a container.
C22_SpreadNeedsContainer ==
    (pc = "filter" /\ Len(block.from) = 1) =>
        \A i \in DOMAIN matches : \A x \in SpreadsOfFields(block.from[1].fields) :
            x \in DOMAIN matches[i].bindings => ListLike(heap, matches[i].bindings[x])

\* the elements of a list-like value: the entries of a slice or of a field
\* list
IsContainer(h, v) == v.t = "list" \/ (v.t = "node" /\ h[v.id].kind = "FieldList")

ElementsOf(h, v) == IF v.t = "list" THEN v.ids ELSE h[v.id].f.List.ids

\* the list pattern unifies with value v as the positional reading says
ListUnifies(h, v, items) ==
    /\ IsContainer(h, v)
    /\ Len(ElementsOf(h, v)) = Len(items)
    /\ \A i \in DOMAIN items : matchValue(h, Nd(ElementsOf(h, v)[i]), items[i], NoBindings).ok

ExactFields == {"name", "sel", "x", "body", "results", "type", "list", "tok"}
ExactStrings == {<<"F">>, sWithTimeout, sContext, <<"p">>}

\* the value of n's field is an identifier named s or the string s
NamedOrEqual(h, n, name, s) ==
    /\ mapFieldName(name) \in DOMAIN h[n].f
    /\ \/ /\ h[n].f[mapFieldName(name)].t = "node"
          /\ h[h[n].f[mapFieldName(name)].id].kind = "Ident"
          /\ h[h[n].f[mapFieldName(name)].id].f.Name.s = s
       \/ /\ h[n].f[mapFieldName(name)].t = "str"
          /\ h[n].f[mapFieldName(name)].s = s

\* the calls whose function is a selector with the selected name s
CallsOf(h, s) ==
    {n \in DOMAIN h :
        /\ h[n].kind = "CallExpr"
        /\ h[h[n].f.Fun.id].kind = "SelectorExpr"
        /\ h[h[h[n].f.Fun.id].f.Sel.id].f.Name.s = s}

\* C24: an exact pattern "s" unifies with a field iff the field's value is
\* an identifier whose name is s or a string equal to s, the pattern's
\* quotes taken off; it fails on an absent or nil field and on any other
\* value, so that among sibling calls only the one naming s is matched.
C24_ExactPattern ==
    (pc = "filter" /\ Len(block.from) = 1) =>
        /\ \A n \in DOMAIN heap : \A name \in ExactFields : \A s \in ExactStrings :
                matchField(heap, n, FieldMatch(name, Exact(Q(s))), NoBindings).ok
                    <=> NamedOrEqual(heap, n, name, s)
        /\ block.from[1] = mSelWT =>
                {matches[i].node : i \in DOMAIN matches} = CallsOf(heap, sWithTimeout)

\* `sel: "WT"` has matched the first of the two sibling calls of K and not
\* the second
C24_Witness ==
    /\ pc = "filter" /\ block.from = <<mSelWT>>
    /\ Len(matches) = 1
    /\ \E b \in DOMAIN heap :
        /\ heap[b].kind = "BlockStmt" /\ Len(heap[b].f.List.ids) = 2
        /\ heap[heap[b].f.List.ids[1]].f.X.id = matches[1].node
        /\ heap[heap[b].f.List.ids[2]].f.X.id \in CallsOf(heap, sPost)

\* the package of the field spec "name pkg.Type": what stands between the
\* first space and the first dot after it
PkgOfSpec(txt) ==
    SubSeq(txt, FirstSpace(txt) + 1,
           FirstSpace(txt) + Index(SubSeq(txt, FirstSpace(txt) + 1, Len(txt)), <<".">>) - 1)

\* C25: a set statement whose value is "name pkg.Type" adds the package
\* pkg, whichever it is, to the imports to add, so that the file imports
\* pkg after Execute.
C25_SetTracksPackage ==
    [][(SetStep /\ StepDone("patch")
          /\ Contains(block.actions[ai].stmts[1].value.s, <<".">>)) =>
        PkgOfSpec(Unwrapped(block.actions[ai].stmts[1].value.s)) \in imports'
      ]_vars

\* the clauses of kind k, in their order
ClausesOf(input, k) == SelectSeq(input, LAMBDA c : c.k = k)

ClauseRank(c) == CASE c.k = "from" -> 1 [] c.k = "where" -> 2 [] OTHER -> 3

\* one from-clause first, then where-clauses, then actions
BlockShaped(input) ==
    /\ Len(input) >= 1 /\ input[1].k = "from"
    /\ Len(ClausesOf(input, "from")) = 1
    /\ \A i, j \in DOMAIN input : i < j => ClauseRank(input[i]) <= ClauseRank(input[j])

\* C26: the parser accepts a lift block only in the shape one from-clause,
\* then where-clauses, then actions; a block without from-clause, with two
\* from-clauses or with a where-clause after an action is rejected, and an
\* accepted block keeps its matchers, where-clauses and actions in source
\* order with unchanged counts.
C26_BlockShape ==
    /\ parser.st = "accepted" =>
        /\ BlockShaped(parser.input)
        /\ Len(prog) = 1
        /\ prog[1].from = parser.input[1].body
        /\ prog[1].where = [i \in DOMAIN ClausesOf(parser.input, "where") |->
                                ClausesOf(parser.input, "where")[i].body]
        /\ prog[1].actions = [i \in DOMAIN ClausesOf(parser.input, "action") |->
                                ClausesOf(parser.input, "action")[i].body]
    /\ parser.st = "rejected" => ~BlockShaped(parser.input) /\ prog = <<>> /\ err # ""
    /\ (pc = "parse" /\ BlockShaped(parser.input)) => parser.st # "rejected"
    /\ (pc = "parse" /\ ~ENABLED ParseNext) => parser.st \in {"accepted", "rejected"}

\* a block with a from-clause, a where-clause and two actions has been
\* accepted, the second action of the pool before the first
C26_Witness ==
    /\ parser.st = "accepted"
    /\ Len(parser.input) = 4
    /\ Len(prog[1].where) = 1
    /\ prog[1].actions = <<aRename, aPrepend>>

\* C27: in a run over several blocks, each block's match set is computed
\* and filtered in full before the block's first action runs, no matcher
\* traversal interleaving with a mutation, and block k+1 is matched
\* against the tree as the actions of blocks 1..k left it: the tree is
\* never reloaded between blocks.
C27_MatchBeforeExecute ==
    [][/\ pc \in {"match", "filter"} => heap' = heap /\ imports' = imports
       /\ pc = "exec" =>
            /\ matches' = matches
            /\ pc' = "match" => bi' = bi + 1
       /\ (pc' = "exec" /\ pc # "exec") =>
            /\ pc = "filter" /\ mk = Len(block.from)
            /\ matches' = SelectSeq(matches, AllPredicatesTrue)
            /\ ai' = 1 /\ mi' = 1
       /\ bi' # bi =>
            /\ bi' = bi + 1 /\ pc' = "match" /\ mk' = 0
            /\ \/ heap' = heap
               \/ pc = "imports" /\ \E o \in Orders(imports) :
                                        heap' = addImports(heap, imports, o)
       /\ (bi > 1 /\ pc = "match" /\ mk = 0 /\ Len(block.from) > 0) =>
            matches' = ExpectedMatches(heap, block.from[1], FileRoot, NoBindings)
      ]_vars

\* the second block has matched a call in the body of a function G, whose
\* body held no statement before the first block's insert
C27_Witness ==
    /\ bi = 2 /\ pc = "filter"
    /\ \E i \in DOMAIN matches :
        /\ "N" \in DOMAIN matches[i].bindings
        /\ heap[matches[i].bindings["N"].id].f.Name.s = <<"G">>
        /\ matches[i].node \in CallsOf(heap, sWithTimeout)

\* the fields of field list fl whose type is context.Ctx
CtxFields(h, fl) ==
    {i \in DOMAIN h[fl].f.List.ids :
        LET ty == h[h[fl].f.List.ids[i]].f.Type
        IN /\ ty.t = "node" /\ h[ty.id].kind = "SelectorExpr"
           /\ h[h[ty.id].f.X.id].f.Name.s = sContext
           /\ h[h[ty.id].f.Sel.id].f.Name.s = sCtxType}

\* the block is the guarded set alone
GuardedBlock == block.actions = <<aGuardedSet>>

\* C28: a guarded set is applied at most once per field list, also when
\* several matches share the list: over all matches,
\* `if not contains($P, Field{...}) { set $P.first = "..." }` prepends the
\* field exactly once, the guard being evaluated at execution time on the
\* list as the earlier matches left it.
C28_GuardedSetOnce ==
    [][(pc = "exec" /\ GuardedBlock) =>
        LET fl == matches[mi].bindings["P"].id
        IN /\ StepDone("patch")
           /\ IF CtxFields(heap, fl) = {}
              THEN /\ Tail(heap'[fl].f.List.ids) = heap[fl].f.List.ids
                   /\ CtxFields(heap', fl) = {1}
              ELSE /\ heap'[fl] = heap[fl]
                   /\ Len(heap') = Len(heap)
           /\ \A n \in DOMAIN heap :
                heap[n].kind = "FieldList" => Cardinality(CtxFields(heap', n)) <= 1
           /\ pc' = "imports" =>
                \A i \in DOMAIN matches :
                    Cardinality(CtxFields(heap', matches[i].bindings["P"].id)) = 1
      ]_vars

\* the guarded set has run over two matches that share the parameter list
\* of F, which now holds the new field once, in front of the old one
C28_Witness ==
    /\ pc = "imports" /\ GuardedBlock
    /\ \E i, j \in DOMAIN matches :
        /\ i # j
        /\ matches[i].bindings["P"] = matches[j].bindings["P"]
        /\ CtxFields(heap, matches[i].bindings["P"].id) = {1}
        /\ Len(heap[matches[i].bindings["P"].id].f.List.ids) = 2

\* the number of statements the body of the source's function called name
\* holds
SourceStmts(name) ==
    LET shape == CHOOSE s \in {FnShapes[i] : i \in DOMAIN FnShapes} :
                    s[s[1].f.Name.id].f.Name.s = name
    IN Len(shape[shape[1].f.Body.id].f.List.ids)

\* the number of statements of the insert's payload
PayloadCount(ins) == Len(TrimLines(Split(Trim(ins.code.text, BACKTICK), <<"\n">>)))

\* the steps taken so far whose match has block b as its B
StepsOn(b) == {t \in DOMAIN trace : matches[trace[t][2]].bindings["B"].id = b}

\* the first block of the run is one insert into $B
InsertBlock ==
    /\ bi = 1 /\ pc \in {"exec", "imports"}
    /\ block.actions \in {<<aPrepend>>, <<aAppend>>, <<aPrependN>>}

\* C29: an insert is applied once per match, not once per target block:
\* the statement count of a block grows by the number of matches whose
\* target is that block times the number of payload statements, so that k
\* matches sharing a block leave k copies of the payload in it.
C29_InsertPerMatch ==
    InsertBlock =>
        /\ \A i \in DOMAIN matches :
            Len(heap[matches[i].bindings["B"].id].f.List.ids)
                = SourceStmts(heap[matches[i].bindings["N"].id].f.Name.s)
                  + PayloadCount(block.actions[1])
                    * Cardinality(StepsOn(matches[i].bindings["B"].id))
        /\ pc = "imports" =>
            \A i \in DOMAIN matches :
                Cardinality(StepsOn(matches[i].bindings["B"].id))
                    = Cardinality({j \in DOMAIN matches :
                            matches[j].bindings["B"] = matches[i].bindings["B"]})

\* two matches shared the body of K: the payload of two statements stands
\* in it twice, in front of K's two statements
C29_Witness ==
    /\ InsertBlock /\ pc = "imports" /\ block.actions = <<aPrepend>>
    /\ \E i, j \in DOMAIN matches :
        /\ i # j /\ matches[i].bindings["B"] = matches[j].bindings["B"]
        /\ Len(heap[matches[i].bindings["B"].id].f.List.ids) = 6
        /\ Cardinality({q \in DOMAIN heap[matches[i].bindings["B"].id].f.List.ids :
                StmtText(heap, heap[matches[i].bindings["B"].id].f.List.ids[q])
                    = sCancelCall}) = 2

\* the block's actions are emits into out.go
EmitBlock ==
    /\ pc \in {"exec", "imports"}
    /\ block.actions \in {<<aEmitTpl>>, <<aEmitCode>>, <<aEmitTpl, aEmitCode>>}

\* what the (action, match) step t of the block renders
RenderedBy(t) ==
    PackageLine(block.actions[t[1]])
    \o Filled(heap, Unwrapped(block.actions[t[1]].body.text), matches[t[2]].bindings)

\* C30: when an emit runs over several matches, or several emits name the
\* same file, emittedFiles holds one entry per file name, its content the
\* one rendered by the last (action, match) step that wrote the name,
\* earlier contents overwritten and not concatenated, while the applied
\* log gets one "emit:<file>" entry per step.
C30_EmitLastWins ==
    EmitBlock =>
        /\ DOMAIN emitted = IF trace = <<>> THEN {} ELSE {sOutFile}
        /\ trace # <<>> => emitted[sOutFile] = RenderedBy(trace[Len(trace)])
        /\ applied = [t \in DOMAIN trace |-> <<"emit:">> \o sOutFile]
        /\ pc = "imports" => Len(applied) = Len(block.actions) * Len(matches)

\* `func ${N}` has been emitted for two functions of different names:
\* out.go holds the text of the second only, the log two entries
C30_Witness ==
    /\ EmitBlock /\ pc = "imports" /\ block.actions = <<aEmitTpl>>
    /\ Len(matches) = 2 /\ Len(applied) = 2
    /\ heap[matches[1].bindings["N"].id].f.Name.s
            # heap[matches[2].bindings["N"].id].f.Name.s
    /\ emitted[sOutFile] = <<"f","u","n","c"," ">>
                            \o heap[matches[2].bindings["N"].id].f.Name.s

Spec == Init /\ [][Next]_vars

ParseSpec == ParseInit /\ [][ParseNext]_vars

====
